---- MODULE Spec2Model ----
(***************************************************************************)
(* A model of the Xero parts price updater (aderiz/vwdu-v1):               *)
(*   src/xero_price_updater.py  PartsPriceScraper, process_xero_export     *)
(*   src/web_app.py             ScraperTask, /upload, /cancel, process_csv *)
(*   src/test_single_sku.py     test_sku                                   *)
(*                                                                         *)
(* Python strings are sequences of one-character strings, so that split,   *)
(* strip, upper and the price regular expression are computed and not      *)
(* assumed.  Python floats are IEEE-754 binary64 values held exactly as    *)
(* multi-limb integers (see the section on floats).                        *)
(***************************************************************************)
EXTENDS Integers, Sequences, FiniteSets, TLC

VARIABLES
    \* ---- the facade specification (SpecFacade) ----
    item_name,      \* the argument of extract_sku_from_name / get_price
    extracted,      \* <<description, sku>> returned by extract_sku_from_name
    facade,         \* what the get_price call did (see GetPriceResult)
    \* ---- the lookup specification (SpecLookup) ----
    lk_sku,         \* the identifier handed to an adapter
    lk_page,        \* how the browser and the page behave during the lookup
    lk_out,         \* what the adapter did (see search_justkampers)
    \* ---- the batch specification (SpecBatch): process_xero_export ----
    items,          \* the rows of the input CSV: [ItemName, SalesUnitPrice]
    updates,        \* the list `updates`
    unchanged,      \* the list `unchanged`
    errors,         \* the list `errors`
    scraper,        \* the driver field of the run's PartsPriceScraper
    run,            \* "running", "returned", or the exception that left the run
    looked,         \* per row looked up: the page met and what get_price did
    output,         \* what was written to output_file and update_file
    first,          \* None, or what the run before did, the batch being run
                    \* again on that run's output_file
    \* ---- the web specification (SpecWeb): web_app.py ----
    current_task,       \* the global current_task: 0 (None) or the number of a task
    tasks,              \* the ScraperTask objects created so far
    scraper_instance,   \* the global scraper_instance: 0 (None) or a scraper's number
    scrapers,           \* the driver fields of the PartsPriceScraper objects created
    threads,            \* the process_csv threads started: position and locals
    asked,              \* the tasks /cancel was accepted for
    \* ---- browsers, in the batch and the web specifications ----
    started,        \* the browsers started so far
    quit            \* the browsers quit so far

facadeVars == <<item_name, extracted, facade>>
lookupVars == <<lk_sku, lk_page, lk_out>>
batchVars == <<items, updates, unchanged, errors, scraper, run, looked, output,
               first>>
webVars == <<current_task, tasks, scraper_instance, scrapers, threads, asked>>
browserVars == <<started, quit>>
vars == <<item_name, extracted, facade, lk_sku, lk_page, lk_out,
          items, updates, unchanged, errors, scraper, run, looked, output, first,
          current_task, tasks, scraper_instance, scrapers, threads, asked,
          started, quit>>

(***************************************************************************)
(* Optional values: Python's None against a present value.                 *)
(***************************************************************************)
None == [none |-> TRUE]
Some(x) == [val |-> x]
IsNone(o) == "none" \in DOMAIN o

\* The values the variables of one specification hold under the others.
FacadeIdle == item_name = <<>> /\ extracted = None /\ facade = None
LookupIdle == lk_sku = <<>> /\ lk_page = None /\ lk_out = None
BatchIdle ==
    /\ items = <<>> /\ updates = <<>> /\ unchanged = <<>> /\ errors = <<>>
    /\ scraper = 0 /\ run = "idle" /\ looked = <<>> /\ output = None
    /\ first = None
WebIdle ==
    /\ current_task = 0 /\ tasks = <<>> /\ scraper_instance = 0 /\ scrapers = <<>>
    /\ threads = <<>> /\ asked = {}
NoBrowsers == started = {} /\ quit = {}

(***************************************************************************)
(* Strings.                                                                *)
(***************************************************************************)
\* The characters str.strip() removes (str.isspace) among those modelled.
Whitespace == {" ", "\t"}

\* str.upper() on one character, for the letters the model uses.
UpperChar(c) ==
    CASE c = "j" -> "J"
      [] c = "a" -> "A"
      [] c = "b" -> "B"
      [] OTHER -> c

\* s.upper()
Upper(s) == [i \in 1..Len(s) |-> UpperChar(s[i])]

\* s.lstrip()
RECURSIVE LStrip(_)
LStrip(s) ==
    IF s # <<>> /\ Head(s) \in Whitespace THEN LStrip(Tail(s)) ELSE s

\* s.rstrip()
RECURSIVE RStrip(_)
RStrip(s) ==
    IF s # <<>> /\ s[Len(s)] \in Whitespace
    THEN RStrip(SubSeq(s, 1, Len(s) - 1))
    ELSE s

\* s.strip()
Strip(s) == LStrip(RStrip(s))

\* s.rstrip(c): every trailing occurrence of the character c is removed.
RECURSIVE RStripChar(_, _)
RStripChar(s, c) ==
    IF s # <<>> /\ s[Len(s)] = c
    THEN RStripChar(SubSeq(s, 1, Len(s) - 1), c)
    ELSE s

\* s.replace(c, ''): every occurrence of the character c is removed.
RECURSIVE RemoveChar(_, _)
RemoveChar(s, c) ==
    IF s = <<>> THEN <<>>
    ELSE IF Head(s) = c THEN RemoveChar(Tail(s), c)
    ELSE <<Head(s)>> \o RemoveChar(Tail(s), c)

\* The scan of s.rsplit(sep, 1): the index of the last sep at or before k, 0 if none.
RECURSIVE RFind(_, _, _)
RFind(s, sep, k) ==
    IF k = 0 THEN 0
    ELSE IF s[k] = sep THEN k
    ELSE RFind(s, sep, k - 1)

\* s.rsplit(sep, 1): one part when sep does not occur, else the two parts around
\* its last occurrence.
RSplit1(s, sep) ==
    LET k == RFind(s, sep, Len(s))
    IN  IF k = 0 THEN <<s>>
        ELSE <<SubSeq(s, 1, k - 1), SubSeq(s, k + 1, Len(s))>>

\* needle in s (substring test)
Contains(s, needle) ==
    \E i \in 1..(Len(s) - Len(needle) + 1) :
        SubSeq(s, i, i + Len(needle) - 1) = needle

(***************************************************************************)
(* PartsPriceScraper.extract_sku_from_name and determine_website.          *)
(***************************************************************************)
\* A plausible bug: split on any whitespace character (str.rsplit(None, 1)).
RECURSIVE RFindWhitespace(_, _)
RFindWhitespace(s, k) ==
    IF k = 0 THEN 0
    ELSE IF s[k] \in Whitespace THEN k
    ELSE RFindWhitespace(s, k - 1)

extract_sku_from_name_anyws(name) ==
    LET k == RFindWhitespace(name, Len(name))
    IN  IF k = 0 THEN <<name, <<>>>>
        ELSE <<Strip(SubSeq(name, 1, k - 1)),
               RStripChar(Strip(SubSeq(name, k + 1, Len(name))), "/")>>

\* Returns <<description, sku>>.
extract_sku_from_name(name) ==
    LET parts == RSplit1(name, " ")
    IN  IF Len(parts) = 2
        THEN <<Strip(parts[1]), RStripChar(Strip(parts[2]), "/")>>
        ELSE <<name, <<>>>>

\* A plausible bug: a case-insensitive prefix test.
determine_website_nocase(sku) ==
    IF sku # <<>> /\ UpperChar(sku[1]) = "J" THEN "justkampers" ELSE "heritage"

\* sku.startswith('J')
determine_website(sku) ==
    IF sku # <<>> /\ sku[1] = "J" THEN "justkampers" ELSE "heritage"

(***************************************************************************)
(* Python floats.  A float is an IEEE-754 binary64 value, held exactly as  *)
(* a sign and a magnitude counted in units of 2^-FracBits; the magnitude   *)
(* is a natural number written as little-endian limbs in base 2^15,        *)
(* without high zero limbs (TLC's integers are 32 bits wide).  Every       *)
(* binary64 value that is 0 or at least 2^(52 - FracBits) in magnitude is  *)
(* a whole number of units, so are sums and differences of such values;    *)
(* the prices of the model lie in that range.                              *)
(***************************************************************************)
Base == 2^15
MantBits == 52 + 1       \* significand bits of binary64, hidden bit included
FracBits == 52 + 15      \* the unit is 2^-67: exact for magnitudes >= 2^-15

RECURSIVE BigOfInt(_)
BigOfInt(n) == IF n = 0 THEN <<>> ELSE <<n % Base>> \o BigOfInt(n \div Base)

RECURSIVE BigNorm(_)
BigNorm(a) ==
    IF a # <<>> /\ a[Len(a)] = 0 THEN BigNorm(SubSeq(a, 1, Len(a) - 1)) ELSE a

\* a * m + c for 0 <= m, c < Base
RECURSIVE BigMulAdd(_, _, _)
BigMulAdd(a, m, c) ==
    IF a = <<>> THEN BigOfInt(c)
    ELSE LET t == Head(a) * m + c
         IN  <<t % Base>> \o BigMulAdd(Tail(a), m, t \div Base)

BigMulSmall(a, m) == BigNorm(BigMulAdd(a, m, 0))

\* a divided by d, 0 < d < Base: the quotient's limbs (not normalised) and the remainder
RECURSIVE BigDivRem(_, _)
BigDivRem(a, d) ==
    IF a = <<>> THEN [q |-> <<>>, r |-> 0]
    ELSE LET hi  == BigDivRem(Tail(a), d)
             cur == hi.r * Base + Head(a)
         IN  [q |-> <<cur \div d>> \o hi.q, r |-> cur % d]

BigDivSmall(a, d) == BigNorm(BigDivRem(a, d).q)
BigModSmall(a, d) == BigDivRem(a, d).r

\* -1, 0, 1 as a < b, a = b, a > b
RECURSIVE BigCmp(_, _)
BigCmp(a, b) ==
    IF Len(a) # Len(b) THEN (IF Len(a) < Len(b) THEN -1 ELSE 1)
    ELSE IF a = <<>> THEN 0
    ELSE IF a[Len(a)] # b[Len(b)] THEN (IF a[Len(a)] < b[Len(b)] THEN -1 ELSE 1)
    ELSE BigCmp(BigNorm(SubSeq(a, 1, Len(a) - 1)), BigNorm(SubSeq(b, 1, Len(b) - 1)))

RECURSIVE BigAddC(_, _, _)
BigAddC(a, b, c) ==
    IF a = <<>> /\ b = <<>> THEN BigOfInt(c)
    ELSE LET x == IF a = <<>> THEN 0 ELSE Head(a)
             y == IF b = <<>> THEN 0 ELSE Head(b)
             t == x + y + c
         IN  <<t % Base>> \o BigAddC(IF a = <<>> THEN a ELSE Tail(a),
                                     IF b = <<>> THEN b ELSE Tail(b), t \div Base)

BigAdd(a, b) == BigNorm(BigAddC(a, b, 0))

\* a - b - c for a >= b + c
RECURSIVE BigSubB(_, _, _)
BigSubB(a, b, c) ==
    IF a = <<>> THEN <<>>
    ELSE LET y == IF b = <<>> THEN 0 ELSE Head(b)
             t == Head(a) - y - c
         IN  <<(t + Base) % Base>>
             \o BigSubB(Tail(a), IF b = <<>> THEN b ELSE Tail(b), IF t < 0 THEN 1 ELSE 0)

BigSub(a, b) == BigNorm(BigSubB(a, b, 0))

RECURSIVE BitLenSmall(_)
BitLenSmall(n) == IF n = 0 THEN 0 ELSE 1 + BitLenSmall(n \div 2)

BigBitLen(a) ==
    IF a = <<>> THEN 0 ELSE (Len(a) - 1) * 15 + BitLenSmall(a[Len(a)])

\* a * 2^k
BigShl(a, k) ==
    IF a = <<>> THEN a
    ELSE BigMulSmall([i \in 1..(k \div 15) |-> 0] \o a, 2^(k % 15))

\* floor(a / 2^k)
BigShr(a, k) ==
    IF Len(a) <= k \div 15 THEN <<>>
    ELSE BigDivSmall(SubSeq(a, (k \div 15) + 1, Len(a)), 2^(k % 15))

BigIsOdd(a) == a # <<>> /\ a[1] % 2 = 1

\* Round-to-nearest, ties-to-even, of the magnitude x (whose discarded part below
\* the unit is nonzero exactly when sticky) to MantBits significant bits: with s
\* the number of bits to drop, q the kept bits and c the comparison of the
\* dropped bits with one half.
RoundUp(q, s, c, sticky) ==
    BigShl(IF c > 0 \/ (c = 0 /\ (sticky \/ BigIsOdd(q))) THEN BigAdd(q, <<1>>) ELSE q, s)

RoundKept(x, sticky, s, q) ==
    RoundUp(q, s, BigCmp(BigSub(x, BigShl(q, s)), BigShl(<<1>>, s - 1)), sticky)

RoundDrop(x, sticky, s) ==
    IF s <= 0 THEN x ELSE RoundKept(x, sticky, s, BigShr(x, s))

RoundMant(x, sticky) == RoundDrop(x, sticky, BigBitLen(x) - MantBits)

Digits == {"0", "1", "2", "3", "4", "5", "6", "7", "8", "9"}

DigitVal(c) ==
    CASE c = "0" -> 0 [] c = "1" -> 1 [] c = "2" -> 2 [] c = "3" -> 3
      [] c = "4" -> 4 [] c = "5" -> 5 [] c = "6" -> 6 [] c = "7" -> 7
      [] c = "8" -> 8 [] c = "9" -> 9

\* The natural number a digit string writes, as a magnitude in whole ones.
RECURSIVE BigOfDigits(_, _)
BigOfDigits(ds, acc) ==
    IF ds = <<>> THEN acc
    ELSE BigOfDigits(Tail(ds), BigNorm(BigMulAdd(acc, 10, DigitVal(Head(ds)))))

\* x / 10^k, rounded down, with whether anything was discarded
RECURSIVE BigDivPow10(_, _, _)
BigDivPow10(x, k, sticky) ==
    IF k = 0 THEN [q |-> x, sticky |-> sticky]
    ELSE BigDivPow10(BigDivSmall(x, 10), k - 1, sticky \/ BigModSmall(x, 10) # 0)

Float(neg, mag) == [neg |-> neg /\ mag # <<>>, mag |-> mag]
FloatZero == Float(FALSE, <<>>)

\* The binary64 value nearest to the decimal numeral  int . frac  (digit strings).
FloatRounded(d) == Float(FALSE, RoundMant(d.q, d.sticky))

FloatOfDecimal(int, frac) ==
    FloatRounded(BigDivPow10(BigShl(BigOfDigits(int \o frac, <<>>), FracBits),
                             Len(frac), FALSE))

\* float(s) for a string over digits, '.', ',', whitespace and other symbols:
\* surrounding whitespace is ignored; digits with at most one '.', and at least
\* one digit, give a value; anything else is a ValueError (None here).
FloatOfParts(int, frac) ==
    IF /\ \A i \in 1..Len(int) : int[i] \in Digits
       /\ \A i \in 1..Len(frac) : frac[i] \in Digits
       /\ Len(int) + Len(frac) > 0
    THEN Some(FloatOfDecimal(int, frac))
    ELSE None

FloatOfSplit(parts) ==
    FloatOfParts(parts[1], IF Len(parts) = 2 THEN parts[2] ELSE <<>>)

FloatOfStr(s) == FloatOfSplit(RSplit1(Strip(s), "."))

\* a - b in binary64: the exact difference, rounded.
FloatSubCmp(a, b, c) ==
    IF a.neg # b.neg THEN Float(a.neg, RoundMant(BigAdd(a.mag, b.mag), FALSE))
    ELSE IF c >= 0 THEN Float(a.neg, RoundMant(BigSub(a.mag, b.mag), FALSE))
    ELSE Float(~a.neg, RoundMant(BigSub(b.mag, a.mag), FALSE))

FloatSub(a, b) == FloatSubCmp(a, b, BigCmp(a.mag, b.mag))

\* abs(a)
FloatAbs(a) == Float(FALSE, a.mag)

\* a > b
FloatGtCmp(a, b, c) ==
    IF a.neg # b.neg THEN b.neg
    ELSE IF a.neg THEN c < 0
    ELSE c > 0

FloatGt(a, b) == FloatGtCmp(a, b, BigCmp(a.mag, b.mag))

\* Long division of magnitudes, limb by limb (Knuth's algorithm D).  For a
\* divisor d whose highest limb is at least Base / 2 and a partial remainder
\* r < d * Base, the quotient of the two highest limbs of r by the highest
\* limb of d is the digit sought or exceeds it by at most 2.
BigLimb(a, i) == IF i <= Len(a) THEN a[i] ELSE 0

BigQuoCapped(t) == IF t < Base THEN t ELSE Base - 1

BigQuoEstimate(r, d) ==
    BigQuoCapped((BigLimb(r, Len(d) + 1) * Base + BigLimb(r, Len(d))) \div d[Len(d)])

BigQuoFits(r, d, t) == BigCmp(BigMulSmall(d, t), r) <= 0

\* The largest digit with d * digit <= r, t being the estimate.
BigQuoDigit(r, d, t) ==
    IF BigQuoFits(r, d, t) THEN t
    ELSE IF BigQuoFits(r, d, t - 1) THEN t - 1
    ELSE t - 2

\* The limbs i, i - 1, .. 1 of n brought down onto the remainder r, q being
\* the quotient so far.
RECURSIVE BigDivLimbs(_, _, _, _, _)
BigDivDigit(n, d, i, r, t, q) ==
    BigDivLimbs(n, d, i - 1, BigSub(r, BigMulSmall(d, t)), BigNorm(<<t>> \o q))

BigDivStep(n, d, i, r, q) ==
    BigDivDigit(n, d, i, r, BigQuoDigit(r, d, BigQuoEstimate(r, d)), q)

BigDivLimbs(n, d, i, r, q) ==
    IF i = 0 THEN [q |-> q, r |-> r]
    ELSE BigDivStep(n, d, i, BigNorm(<<n[i]>> \o r), q)

\* n and d # 0 both scaled so that the highest limb of d is at least Base / 2;
\* the highest Len(d) - 1 limbs of n are the first partial remainder.
BigDivScaled(n, d) ==
    IF Len(n) < Len(d) THEN [q |-> <<>>, r |-> n]
    ELSE BigDivLimbs(n, d, Len(n) - Len(d) + 1,
                     SubSeq(n, Len(n) - Len(d) + 2, Len(n)), <<>>)

BigDivShifted(n, d, s) == BigDivScaled(BigShl(n, s), BigShl(d, s))

\* The quotient q of n by d # 0, and a remainder r that is zero exactly when
\* the division is exact.
BigDivMod(n, d) == BigDivShifted(n, d, 15 - BitLenSmall(d[Len(d)]))

\* a / b in binary64 for b # 0: the quotient, exact or with something left
\* over, rounded.
FloatDivRounded(neg, qr) ==
    IF qr.r = <<>> THEN Float(neg, RoundMant(qr.q, FALSE))
    ELSE Float(neg, RoundMant(qr.q, TRUE))

FloatDiv(a, b) ==
    FloatDivRounded(a.neg # b.neg, BigDivMod(BigShl(a.mag, FracBits), b.mag))

\* a * 100 in binary64: the exact product, rounded.
FloatTimes100(a) == Float(a.neg, RoundMant(BigMulSmall(a.mag, 100), FALSE))

\* str(x) of a float x with 1e-4 <= |x| < 1e16 or x = 0 (no exponent is
\* printed in that range): the numeral with the fewest decimals, at least one,
\* that float() reads back as x.
DigitChar(d) == <<"0", "1", "2", "3", "4", "5", "6", "7", "8", "9">>[d + 1]

RECURSIVE DigitsOfBig(_)
DigitsOfBig(a) ==
    IF a = <<>> THEN <<>>
    ELSE Append(DigitsOfBig(BigDivSmall(a, 10)), DigitChar(BigModSmall(a, 10)))

RECURSIVE BigMulPow10(_, _)
BigMulPow10(a, k) == IF k = 0 THEN a ELSE BigMulPow10(BigMulSmall(a, 10), k - 1)

\* x / 2^FracBits rounded to the nearest whole number, q being its floor.
NearestWholeOf(x, q) ==
    RoundUp(q, 0, BigCmp(BigSub(x, BigShl(q, FracBits)), BigShl(<<1>>, FracBits - 1)),
            FALSE)

NearestWhole(x) == NearestWholeOf(x, BigShr(x, FracBits))

\* ds with zeros in front, up to n digits
ZeroPad(ds, n) == [i \in 1..(n - Len(ds)) |-> "0"] \o ds

\* The digits ds of mag * 10^p, rounded, as a numeral with p decimals.
Numeral(ds, p) ==
    [int |-> SubSeq(ds, 1, Len(ds) - p), frac |-> SubSeq(ds, Len(ds) - p + 1, Len(ds))]

NumeralAt(mag, p) ==
    Numeral(ZeroPad(DigitsOfBig(NearestWhole(BigMulPow10(mag, p))), p + 1), p)

RECURSIVE FloatReprFrom(_, _)
FloatReprTry(mag, p, num) ==
    IF p >= 21 \/ FloatOfDecimal(num.int, num.frac).mag = mag
    THEN num.int \o <<".">> \o num.frac
    ELSE FloatReprFrom(mag, p + 1)

FloatReprFrom(mag, p) == FloatReprTry(mag, p, NumeralAt(mag, p))

FloatRepr(x) == (IF x.neg THEN <<"-">> ELSE <<>>) \o FloatReprFrom(x.mag, 1)

(***************************************************************************)
(* The browser and the page, as the adapters see them.                     *)
(*                                                                         *)
(* An element lookup (find_element) gives Missing (NoSuchElementException),*)
(* Broken (any other WebDriverException, e.g. a stale element) or an       *)
(* element with its visible text and attributes; get_attribute gives None  *)
(* for an attribute the element does not carry.                            *)
(*                                                                         *)
(* A candidate is one product entry of the result page:                    *)
(*   labels   the texts of its div.amlabel-text elements (JustKampers)     *)
(*   labels_ok  FALSE when reading the labels raises                       *)
(*   skus     what each of Heritage's SKU selectors finds, in order        *)
(*   title    what a.product-item-link / h2.product-name finds             *)
(*   listing  what each price selector finds inside the entry, in order    *)
(*   link     whether the link to the product page is found and clicked    *)
(*   detail   what each price selector finds on the product page, in order *)
(* A selector past the end of skus, listing or detail finds no element.    *)
(*                                                                         *)
(* A page is one lookup's behaviour of the browser:                        *)
(*   start    whether webdriver.Chrome() succeeds when a driver is needed  *)
(*   get      whether driver.get(search_url) succeeds                      *)
(*   grid     whether the products-grid appears within the wait (Heritage) *)
(*   find     "broken" when find_elements raises                           *)
(*   found    the entries of the primary locator                           *)
(*   alt      the entries of Heritage's alternative locators, in order     *)
(***************************************************************************)
Missing == [kind |-> "missing"]
Broken == [kind |-> "broken"]
Elem(text, amount, tax, content, inner) ==
    [kind |-> "elem", text |-> text, amount |-> amount, tax |-> tax,
     content |-> content, inner |-> inner]
TextElem(text) == Elem(text, None, None, None, None)

ElemAt(found, i) == IF i <= Len(found) THEN found[i] ELSE Missing

\* Python truthiness of an optional string: neither None nor ''.
Truthy(o) == ~IsNone(o) /\ o.val # <<>>

\* The end of the longest run of characters of `set` starting at index i (i - 1 if none).
RECURSIVE RunEnd(_, _, _)
RunEnd(s, i, set) ==
    IF i <= Len(s) /\ s[i] \in set THEN RunEnd(s, i + 1, set) ELSE i - 1

\* The first index at or after i holding a character of `set`, 0 if none.
RECURSIVE FirstIn(_, _, _)
FirstIn(s, i, set) ==
    IF i > Len(s) THEN 0
    ELSE IF s[i] \in set THEN i
    ELSE FirstIn(s, i + 1, set)

\* re.search(r'[\d,]+\.?\d*', s): the matched text, or None.
PriceMatch(s) ==
    LET b == FirstIn(s, 1, Digits \cup {","})
    IN  IF b = 0 THEN None
        ELSE LET e1 == RunEnd(s, b, Digits \cup {","})
                 e2 == IF e1 < Len(s) /\ s[e1 + 1] = "." THEN e1 + 1 ELSE e1
                 e3 == RunEnd(s, e2 + 1, Digits)
             IN  Some(SubSeq(s, b, e3))

\* float(price_match.group().replace(',', '')): the value, or None on ValueError.
MatchValue(m) == FloatOfStr(RemoveChar(m, ","))

\* What a step of an extraction cascade gives: a price, nothing (go on), or an
\* exception leaving the cascade.
Got(price, how, sel) == [kind |-> "price", price |-> price, how |-> how, sel |-> sel]
Nothing == [kind |-> "nothing"]
Throws(what) == [kind |-> "raise", what |-> what]

(***************************************************************************)
(* PartsPriceScraper.start_driver / close_driver.  A scraper's driver      *)
(* field is 0 (None) or the number of the browser it started.             *)
(***************************************************************************)
NoDriver == 0

\* The driver field after start_driver, and whether it raised.  `fresh` is the
\* number the next browser started gets.
start_driver(driver, fresh, page) ==
    IF driver # NoDriver THEN [driver |-> driver, raised |-> FALSE]
    ELSE IF page.start = "ok" THEN [driver |-> fresh, raised |-> FALSE]
    ELSE [driver |-> NoDriver, raised |-> TRUE]

\* PartsPriceScraper.close_driver: the browsers quit afterwards.
close_driver(driver) == IF driver = NoDriver THEN quit ELSE quit \cup {driver}

\* The number the next browser started gets.
FreshDriver == Cardinality(started) + 1

(***************************************************************************)
(* PartsPriceScraper.search_justkampers.                                   *)
(***************************************************************************)
\* price_selectors of search_justkampers
NumJKSelectors == 4

\* float(...) of a price string taken by strategy `how` from selector sel: the
\* price, or the ValueError.
Parsed(v, how, sel) ==
    IF IsNone(v) THEN Throws("ValueError") ELSE Got(v.val, how, sel)

\* Lines 152-172: the price selectors inside the matched entry, from selector i
\* on; e is what selector i finds.
RECURSIVE JKListing(_, _)
JKListingAt(cand, i, e) ==
    IF e.kind = "missing" THEN JKListing(cand, i + 1)
    ELSE IF e.kind = "broken" THEN Throws("WebDriverException")
    ELSE IF Truthy(e.amount) THEN Parsed(FloatOfStr(e.amount.val), "attribute", i)
    ELSE IF e.text # <<>> /\ ~IsNone(PriceMatch(e.text))
    THEN Parsed(MatchValue(PriceMatch(e.text).val), "text", i)
    ELSE JKListing(cand, i + 1)

JKListing(cand, i) ==
    IF i > NumJKSelectors THEN Nothing
    ELSE JKListingAt(cand, i, ElemAt(cand.listing, i))

\* Lines 181-192: the price selectors on the product page, from selector i on.
RECURSIVE JKDetail(_, _)
JKDetailAt(cand, i, e) ==
    IF e.kind = "missing" THEN JKDetail(cand, i + 1)
    ELSE IF e.kind = "broken" THEN Throws("WebDriverException")
    ELSE IF ~IsNone(PriceMatch(e.text))
    THEN Parsed(MatchValue(PriceMatch(e.text).val), "page", i)
    ELSE JKDetail(cand, i + 1)

JKDetail(cand, i) ==
    IF i > NumJKSelectors THEN Nothing
    ELSE JKDetailAt(cand, i, ElemAt(cand.detail, i))

\* Lines 175-194: click through to the product page; the bare except swallows
\* whatever the link, the click or the page raises.
JKSwallow(d) ==
    [got |-> IF d.kind = "raise" THEN Nothing ELSE d, clicks |-> 1]

JKClickThrough(cand) ==
    IF cand.link # "ok" THEN [got |-> Nothing, clicks |-> 0]
    ELSE JKSwallow(JKDetail(cand, 1))

\* Lines 130-138: the first non-empty label text, '' if none.
RECURSIVE JKProductSku(_)
JKProductSku(labels) ==
    IF labels = <<>> THEN <<>>
    ELSE IF Strip(Head(labels)) # <<>> THEN Strip(Head(labels))
    ELSE JKProductSku(Tail(labels))

\* A plausible bug: also ignore spaces and slashes, as search_heritage does.
JKMatches_normalised(product_sku, search_sku) ==
    Upper(RemoveChar(RemoveChar(product_sku, " "), "/"))
        = Upper(RemoveChar(RemoveChar(search_sku, " "), "/"))

\* Line 141: product_sku.upper() == search_sku_normalized
JKMatches(product_sku, search_sku) == Upper(product_sku) = Upper(search_sku)

\* What the adapters hand back besides the price: a trace of what they did.
\*   loads     search pages loaded          clicks   product pages opened
\*   examined  the entries looked at        matched  the entries found to match
\*   from      the entry, strategy and selector the price was taken from
Trace0 == [loads |-> 0, clicks |-> 0, examined |-> <<>>, matched |-> <<>>,
           from |-> None]

Examined(tr, k) == [tr EXCEPT !.examined = Append(@, k)]
Matched(tr, k) == [tr EXCEPT !.matched = Append(@, k)]
Clicked(tr, n) == [tr EXCEPT !.clicks = @ + n]
PriceFrom(tr, k, got) ==
    [ret |-> Some(got.price), tr |-> [tr EXCEPT !.from = Some(<<k, got.how, got.sel>>)]]

\* Lines 127-204: the loop over the entries, from entry k on.
RECURSIVE JKLoop(_, _, _, _)

\* Lines 174-197: after the listing gave nothing, c is what the click-through gave.
JKAfterClick(k, tr, c) ==
    IF c.got.kind = "price" THEN PriceFrom(Clicked(tr, c.clicks), k, c.got)
    ELSE [ret |-> None, tr |-> Clicked(tr, c.clicks)]

\* Lines 141-197: the entry k matched; l is what its listing gave.  An exception
\* reaches the except clause of line 199, and the next entry follows.
JKMatched(products, k, search_sku, tr, l) ==
    IF l.kind = "price" THEN PriceFrom(tr, k, l)
    ELSE IF l.kind = "raise" THEN JKLoop(products, k + 1, search_sku, tr)
    ELSE JKAfterClick(k, tr, JKClickThrough(products[k]))

JKEntry(products, k, search_sku, tr, cand) ==
    IF ~cand.labels_ok THEN JKLoop(products, k + 1, search_sku, tr)
    ELSE IF ~JKMatches(JKProductSku(cand.labels), search_sku)
    THEN JKLoop(products, k + 1, search_sku, tr)
    ELSE JKMatched(products, k, search_sku, Matched(tr, k), JKListing(cand, 1))

JKLoop(products, k, search_sku, tr) ==
    IF k > Len(products) THEN [ret |-> None, tr |-> tr]
    ELSE JKEntry(products, k, search_sku, Examined(tr, k), products[k])

\* What a call of an adapter gives: the value returned (None or a float) or the
\* exception raised, the scraper's driver field afterwards, and the trace.
Returned(ret, driver, tr) ==
    [ret |-> ret, raised |-> FALSE, driver |-> driver, tr |-> tr]
Raised(driver, tr) ==
    [ret |-> None, raised |-> TRUE, driver |-> driver, tr |-> tr]
ReturnedLoop(r, driver) == Returned(r.ret, driver, r.tr)

\* Lines 92-204: the body of the try block after start_driver().
JKBody(sku, driver, page) ==
    IF page.get # "ok" \/ page.find # "ok" \/ page.found = <<>>
    THEN Returned(None, driver, [Trace0 EXCEPT !.loads = 1])
    ELSE ReturnedLoop(JKLoop(page.found, 1, Strip(sku), [Trace0 EXCEPT !.loads = 1]),
                      driver)

\* A plausible bug: start_driver() called before the try block.
JKStarted_startoutside(sku, st, page) ==
    IF st.raised THEN Raised(st.driver, Trace0)
    ELSE JKBody(sku, st.driver, page)

\* Lines 89-90 and 206-208: st is what start_driver() gave.  Every exception of
\* the try block, the one of start_driver() included, reaches the except clause
\* of line 206 and becomes None.
JKStarted(sku, st, page) ==
    IF st.raised THEN Returned(None, st.driver, Trace0)
    ELSE JKBody(sku, st.driver, page)

\* Lines 84-208.
search_justkampers(sku, driver, fresh, page) ==
    JKStarted(sku, start_driver(driver, fresh, page), page)

(***************************************************************************)
(* PartsPriceScraper.search_heritage.                                      *)
(***************************************************************************)
\* sku_selectors and price_selectors of search_heritage
NumHSkuSelectors == 5
NumHSelectors == 8

\* Lines 284-292: the SKU selectors from selector i on; an element with an empty
\* text, a missing element and any exception all lead to the next selector.
RECURSIVE HSkuText(_, _)
HSkuTextAt(cand, i, e) ==
    IF e.kind = "elem" /\ Strip(e.text) # <<>> THEN Strip(e.text)
    ELSE HSkuText(cand, i + 1)

HSkuText(cand, i) ==
    IF i > NumHSkuSelectors THEN <<>>
    ELSE HSkuTextAt(cand, i, ElemAt(cand.skus, i))

\* Lines 295-303: the title as a fallback for an entry showing no identifier.
HTitleFallback(cand, search_sku, sku_text) ==
    IF sku_text # <<>> THEN sku_text
    ELSE IF cand.title.kind = "elem" /\ Contains(cand.title.text, search_sku)
    THEN search_sku
    ELSE <<>>

\* Lines 275-303: the entry's displayed identifier.
HProductSku(cand, search_sku) == HTitleFallback(cand, search_sku, HSkuText(cand, 1))

\* Lines 221 and 306: spaces and slashes removed, upper-cased.
HNormalize(sku) == Upper(RemoveChar(RemoveChar(sku, " "), "/"))

\* Lines 327-339: the text of the element or, when it is empty, the first
\* non-empty of the parent's tax-inclusive price, data-price-amount, content and
\* innerText (the last one as it is, None included).
HPriceText(e) ==
    IF e.text # <<>> THEN [text |-> Some(e.text), how |-> "text"]
    ELSE IF Truthy(e.tax) THEN [text |-> e.tax, how |-> "attribute"]
    ELSE IF Truthy(e.amount) THEN [text |-> e.amount, how |-> "attribute"]
    ELSE IF Truthy(e.content) THEN [text |-> e.content, how |-> "attribute"]
    ELSE [text |-> e.inner, how |-> "attribute"]

\* Lines 341-345: the number in a price text; None when the text is empty, shows
\* no number, or float() raises (the except clause of line 349 follows).
HMatched(m) == IF IsNone(m) THEN None ELSE MatchValue(m.val)
HValue(pt) == HMatched(IF Truthy(pt.text) THEN PriceMatch(pt.text.val) ELSE None)

RECURSIVE HListing(_, _)

\* A plausible bug: the listing cascade without the price > 0 test of line 346.
HListingValue_nopositive(cand, i, how, v) ==
    IF ~IsNone(v) THEN Got(v.val, how, i) ELSE HListing(cand, i + 1)

\* Lines 346-348: a value that is not positive leads to the next selector.
HListingValue(cand, i, how, v) ==
    IF ~IsNone(v) /\ FloatGt(v.val, FloatZero) THEN Got(v.val, how, i)
    ELSE HListing(cand, i + 1)

\* Lines 322-351: the price selectors inside the matched entry, from selector i
\* on; every exception (missing or broken element, ValueError) leads to the next
\* selector.
HListingAt(cand, i, e) ==
    IF e.kind # "elem" THEN HListing(cand, i + 1)
    ELSE HListingValue(cand, i, HPriceText(e).how, HValue(HPriceText(e)))

HListing(cand, i) ==
    IF i > NumHSelectors THEN Nothing
    ELSE HListingAt(cand, i, ElemAt(cand.listing, i))

\* Lines 359-370: the price selectors on the product page, from selector i on;
\* only a missing element leads to the next selector, and no test for a positive
\* value is made.
RECURSIVE HDetail(_, _)
HDetailAt(cand, i, e) ==
    IF e.kind = "missing" THEN HDetail(cand, i + 1)
    ELSE IF e.kind = "broken" THEN Throws("WebDriverException")
    ELSE IF ~IsNone(PriceMatch(e.text))
    THEN Parsed(MatchValue(PriceMatch(e.text).val), "page", i)
    ELSE HDetail(cand, i + 1)

HDetail(cand, i) ==
    IF i > NumHSelectors THEN Nothing
    ELSE HDetailAt(cand, i, ElemAt(cand.detail, i))

\* Lines 272-374: the loop over the entries, from entry k on.
RECURSIVE HLoop(_, _, _, _)

\* Lines 358-374: the product page was opened; d is what it gave.  Without a
\* price, or with an exception (the except clause of line 372), the next entry
\* follows.
HAfterClick(products, k, search_sku, tr, d) ==
    IF d.kind = "price" THEN PriceFrom(tr, k, d)
    ELSE HLoop(products, k + 1, search_sku, tr)

\* Lines 309-374: the entry k matched; l is what its listing gave.  A link that
\* is not found or cannot be clicked raises, and the next entry follows.
HMatchedEntry(products, k, search_sku, tr, l) ==
    IF l.kind = "price" THEN PriceFrom(tr, k, l)
    ELSE IF products[k].link # "ok" THEN HLoop(products, k + 1, search_sku, tr)
    ELSE HAfterClick(products, k, search_sku, Clicked(tr, 1), HDetail(products[k], 1))

HEntry(products, k, search_sku, tr, cand) ==
    IF HNormalize(HProductSku(cand, search_sku)) # HNormalize(search_sku)
    THEN HLoop(products, k + 1, search_sku, tr)
    ELSE HMatchedEntry(products, k, search_sku, Matched(tr, k), HListing(cand, 1))

HLoop(products, k, search_sku, tr) ==
    IF k > Len(products) THEN [ret |-> None, tr |-> tr]
    ELSE HEntry(products, k, search_sku, Examined(tr, k), products[k])

\* Lines 262-268: the primary locator, then the alternatives while nothing is found.
RECURSIVE HProducts(_, _)
HProducts(found, alt) ==
    IF found # <<>> \/ alt = <<>> THEN found ELSE HProducts(Head(alt), Tail(alt))

\* Lines 219-377: the body of the try block after start_driver().
HBody(sku, driver, page) ==
    IF page.get # "ok" \/ page.grid # "present" \/ page.find # "ok"
    THEN Returned(None, driver, [Trace0 EXCEPT !.loads = 1])
    ELSE ReturnedLoop(HLoop(HProducts(page.found, page.alt), 1,
                            RStripChar(Strip(sku), "/"),
                            [Trace0 EXCEPT !.loads = 1]),
                      driver)

\* A plausible bug: start_driver() called before the try block.
HStarted_startoutside(sku, st, page) ==
    IF st.raised THEN Raised(st.driver, Trace0)
    ELSE HBody(sku, st.driver, page)

\* Lines 216 and 379-381: st is what start_driver() gave.
HStarted(sku, st, page) ==
    IF st.raised THEN Returned(None, st.driver, Trace0)
    ELSE HBody(sku, st.driver, page)

\* Lines 210-381.
search_heritage(sku, driver, fresh, page) ==
    HStarted(sku, start_driver(driver, fresh, page), page)

(***************************************************************************)
(* PartsPriceScraper.get_price.  The value returned is the tuple the code  *)
(* builds: two components, the price and the source.                       *)
(***************************************************************************)
\* What a call of get_price gives: the tuple returned or the exception raised,
\* the scraper's driver field afterwards, the adapters called, and their trace.
GetPriceResult(source, out, calls) ==
    [ret |-> <<out.ret, source>>, raised |-> out.raised, driver |-> out.driver,
     calls |-> calls, tr |-> out.tr]

\* Lines 394-401: the adapter of the catalog determine_website names.
GetPriceRouted(sku, driver, fresh, page, website) ==
    IF website = "justkampers"
    THEN GetPriceResult("JustKampers", search_justkampers(sku, driver, fresh, page),
                        <<"search_justkampers">>)
    ELSE GetPriceResult("Heritage Parts Centre",
                        search_heritage(sku, driver, fresh, page),
                        <<"search_heritage">>)

\* A plausible bug: no test for the empty identifier.
GetPriceOfSku_noguard(sku, driver, fresh, page) ==
    GetPriceRouted(sku, driver, fresh, page, determine_website(sku))

\* Lines 390-401: sku is the identifier extracted from the name.
GetPriceOfSku(sku, driver, fresh, page) ==
    IF sku = <<>>
    THEN GetPriceResult("unknown", Returned(None, driver, Trace0), <<>>)
    ELSE GetPriceRouted(sku, driver, fresh, page, determine_website(sku))

\* Lines 383-401.
get_price(name, driver, fresh, page) ==
    GetPriceOfSku(extract_sku_from_name(name)[2], driver, fresh, page)

(***************************************************************************)
(* The pages the specifications draw from.                                 *)
(***************************************************************************)
Entry(labels_ok, labels, skus, title, listing, link, detail) ==
    [labels_ok |-> labels_ok, labels |-> labels, skus |-> skus, title |-> title,
     listing |-> listing, link |-> link, detail |-> detail]

Page(start, get, grid, find, found, alt) ==
    [start |-> start, get |-> get, grid |-> grid, find |-> find,
     found |-> found, alt |-> alt]

\* A page on which everything works and the locators find `found`.
GoodPage(found) == Page("ok", "ok", "present", "ok", found, <<>>)

\* A page whose browser cannot be started.
NoBrowserPage == Page("raise", "ok", "present", "ok", <<>>, <<>>)

\* An entry displaying the identifier `shown` with the price text `text` in its
\* first price element.
Offer(shown, text) ==
    Entry(TRUE, <<shown>>, <<TextElem(shown)>>, Missing, <<TextElem(text)>>,
          "ok", <<>>)

(***************************************************************************)
(* SpecFacade: extract_sku_from_name and get_price over every item name of *)
(* at most MaxNameLen characters of NameChars.                             *)
(***************************************************************************)
MaxNameLen == 3
NameChars == {"J", "j", "A", "/", " ", "\t"}

RECURSIVE StringsUpTo(_, _)
StringsUpTo(chars, n) ==
    IF n = 0 THEN {<<>>}
    ELSE LET shorter == StringsUpTo(chars, n - 1)
         IN  shorter \cup {Append(s, c) : s \in shorter, c \in chars}

FacadeNames == StringsUpTo(NameChars, MaxNameLen)

\* The pages get_price meets for the identifier sku: no browser, an empty result
\* page, and a result page offering that identifier at 1.01.
FacadePages(sku) ==
    {NoBrowserPage, GoodPage(<<>>), GoodPage(<<Offer(sku, <<"1", ".", "0", "1">>)>>)}

InitFacade ==
    /\ item_name \in FacadeNames
    /\ extracted = None
    /\ facade = None
    /\ LookupIdle /\ BatchIdle /\ WebIdle /\ NoBrowsers

Extract ==
    /\ extracted = None
    /\ extracted' = Some(extract_sku_from_name(item_name))
    /\ UNCHANGED <<item_name, facade>>
    /\ UNCHANGED <<lookupVars, batchVars, webVars, browserVars>>

GetPrice ==
    /\ facade = None
    /\ \E page \in FacadePages(extract_sku_from_name(item_name)[2]) :
           facade' = Some(get_price(item_name, NoDriver, 1, page))
    /\ UNCHANGED <<item_name, extracted>>
    /\ UNCHANGED <<lookupVars, batchVars, webVars, browserVars>>

NextFacade == Extract \/ GetPrice

SpecFacade == InitFacade /\ [][NextFacade]_vars

(***************************************************************************)
(* SpecLookup: one call of search_justkampers, search_heritage, get_price  *)
(* or test_sku on a fresh scraper, for every identifier of LookupSkus and  *)
(* every page of LookupPages.                                              *)
(***************************************************************************)
\* Price elements.  "$" stands for the currency sign, which is no digit.
ETextPrice  == TextElem(<<"$", "1", ".", "0", "1">>)
EThousands  == TextElem(<<"$", "1", ",", "0", "0", "1", ".", "5", "0">>)
EZeroPrice  == TextElem(<<"0", ".", "0", "0">>)
ENoNumber   == TextElem(<<"P", "O", "A">>)
EOnlyComma  == TextElem(<<",">>)
EAmount     == Elem(<<>>, Some(<<"2", ".", "0", "0">>), None, None, None)
EBadAmount  == Elem(<<>>, Some(<<"P", "O", "A">>), None, None, None)
ETaxPrice   == Elem(<<>>, None, Some(<<"3", ".", "5", "0">>), None, None)

\* How an entry shows its price: <<listing, link, detail>>.
PriceKinds ==
    { <<<<ETextPrice>>, "ok", <<>>>>,                  \* text in the listing
      <<<<Missing, EAmount>>, "ok", <<>>>>,            \* attribute, second selector
      <<<<EZeroPrice>>, "ok", <<EThousands>>>>,        \* 0.00 listed, price on the page
      <<<<EOnlyComma>>, "ok", <<ETextPrice>>>>,        \* unparsable text in the listing
      <<<<Broken>>, "missing", <<>>>>,                 \* broken element, no link
      <<<<ENoNumber, ETaxPrice>>, "ok", <<Missing, EOnlyComma>>>>,
      <<<<EBadAmount>>, "ok", <<Broken>>>> }           \* unparsable attribute

\* The identifiers entries display.
ShownIds == { <<"J", "1">>, <<"j", " ", "1", "/">> }

\* An entry displaying `shown`, with its price shown as `kind`.
ShownEntry(shown, kind) ==
    Entry(TRUE, <<<<>>, shown>>, <<Missing, TextElem(shown)>>, Missing,
          kind[1], kind[2], kind[3])

\* An entry whose identifier cannot be read, with the identifier A1 in its title.
TitleEntry ==
    Entry(FALSE, <<>>, <<Broken>>, TextElem(<<"A", "1", " ", "J">>),
          <<ETextPrice>>, "ok", <<>>)

LookupEntries ==
    {ShownEntry(shown, kind) : shown \in ShownIds, kind \in PriceKinds}
        \cup {TitleEntry}

MaxProducts == 2

RECURSIVE ListsUpTo(_, _)
ListsUpTo(set, n) ==
    IF n = 0 THEN {<<>>}
    ELSE LET shorter == ListsUpTo(set, n - 1)
         IN  shorter \cup {Append(l, x) : l \in shorter, x \in set}

\* The pages: each way the browser fails before the entries are read, a page
\* whose primary locator finds nothing, and every list of at most MaxProducts
\* entries.
LookupPages ==
    { NoBrowserPage,
      Page("ok", "raise", "present", "ok", <<>>, <<>>),
      Page("ok", "ok", "timeout", "ok", <<>>, <<>>),
      Page("ok", "ok", "present", "broken", <<>>, <<>>),
      Page("ok", "ok", "present", "ok", <<>>, << <<>>, <<TitleEntry>> >>) }
        \cup {GoodPage(l) : l \in ListsUpTo(LookupEntries, MaxProducts)}

LookupSkus == { <<"J", "1">>, <<"j", "1">>, <<"j", "1", "/">>, <<"A", "1">> }

\* The item name get_price is called with for the identifier sku.
NameOf(sku) == <<"A", " ">> \o sku

InitLookup ==
    /\ lk_sku \in LookupSkus
    /\ lk_page \in LookupPages
    /\ lk_out = None
    /\ FacadeIdle /\ BatchIdle /\ WebIdle /\ NoBrowsers

Called(fn, out) == Some([fn |-> fn, out |-> out])

CallJustKampers ==
    /\ lk_out = None
    /\ lk_out' = Called("search_justkampers",
                        search_justkampers(lk_sku, NoDriver, 1, lk_page))
    /\ UNCHANGED <<lk_sku, lk_page>>
    /\ UNCHANGED <<facadeVars, batchVars, webVars, browserVars>>

CallHeritage ==
    /\ lk_out = None
    /\ lk_out' = Called("search_heritage",
                        search_heritage(lk_sku, NoDriver, 1, lk_page))
    /\ UNCHANGED <<lk_sku, lk_page>>
    /\ UNCHANGED <<facadeVars, batchVars, webVars, browserVars>>

CallGetPrice ==
    /\ lk_out = None
    /\ lk_out' = Called("get_price", get_price(NameOf(lk_sku), NoDriver, 1, lk_page))
    /\ UNCHANGED <<lk_sku, lk_page>>
    /\ UNCHANGED <<facadeVars, batchVars, webVars, browserVars>>

\* test_single_sku.test_sku, lines 18-42: the adapter named by the first
\* character of the identifier is called on a new scraper, out being what it
\* did, and the finally clause closes the driver.  Had the adapter raised,
\* `return price` would raise for the unbound name.
TestSkuCalled(out) ==
    /\ lk_out' = Called("test_sku",
                        [ret |-> out.ret, raised |-> out.raised,
                         driver |-> NoDriver, tr |-> out.tr])
    /\ started' = IF out.driver = NoDriver THEN started
                  ELSE started \cup {out.driver}
    /\ quit' = close_driver(out.driver)

test_sku ==
    /\ lk_out = None
    /\ TestSkuCalled(IF lk_sku # <<>> /\ lk_sku[1] = "J"
                     THEN search_justkampers(lk_sku, NoDriver, FreshDriver, lk_page)
                     ELSE search_heritage(lk_sku, NoDriver, FreshDriver, lk_page))
    /\ UNCHANGED <<lk_sku, lk_page>>
    /\ UNCHANGED <<facadeVars, batchVars, webVars>>

NextLookup == CallJustKampers \/ CallHeritage \/ CallGetPrice \/ test_sku

SpecLookup == InitLookup /\ [][NextLookup]_vars

(***************************************************************************)
(* Claims about the adapters and the facade.                               *)
(***************************************************************************)
IsFloat(x) == DOMAIN x = {"neg", "mag"}
IsAdapterCall == ~IsNone(lk_out) /\ lk_out.val.fn # "get_price"

\* C1: whatever the browser and the page do (the driver failing to start, a
\* navigation error, a timeout, a missing or broken element, an unparsable
\* price), search_justkampers and search_heritage return a price or None and
\* never raise, and so get_price never raises.
C1_NeverRaises ==
    ~IsNone(lk_out) =>
        /\ ~lk_out.val.out.raised
        /\ lk_out.val.fn # "get_price" =>
               \/ IsNone(lk_out.val.out.ret)
               \/ IsFloat(lk_out.val.out.ret.val)
        /\ lk_out.val.fn = "get_price" => Len(lk_out.val.out.ret) = 2

\* C1's case: the driver failed to start during search_justkampers, which
\* returned None.
C1_Witness ==
    /\ IsAdapterCall
    /\ lk_out.val.fn = "search_justkampers"
    /\ lk_page.start = "raise"
    /\ IsNone(lk_out.val.out.ret)

FacadeSku == extract_sku_from_name(item_name)[2]
NoWhitespace(s) == \A i \in 1..Len(s) : s[i] \notin Whitespace

\* What get_price does for a name without identifier, with `source` as the source.
NotRoutedAs(source) ==
    (~IsNone(facade) /\ (FacadeSku = <<>> \/ NoWhitespace(item_name))) =>
        /\ facade.val.ret = <<None, source>>
        /\ facade.val.calls = <<>>
        /\ facade.val.driver = NoDriver

\* C4 as stated: for a name whose identifier is empty (every name without
\* whitespace), get_price returns an absent price with source "Unknown", calls
\* no adapter and starts no driver.
C4_Original == NotRoutedAs("Unknown")

\* C4, amended: the same with the source the code returns, "unknown".
C4_Amended == NotRoutedAs("unknown")

\* C4's case: get_price was called with a non-empty name without whitespace.
C4_Witness == ~IsNone(facade) /\ item_name # <<>> /\ NoWhitespace(item_name)

\* The last index of s holding a character of `set`.
LastIndexIn(s, set) ==
    CHOOSE k \in 1..Len(s) : s[k] \in set /\ \A j \in (k + 1)..Len(s) : s[j] \notin set
Before(s, k) == SubSeq(s, 1, k - 1)
After(s, k) == SubSeq(s, k + 1, Len(s))
WithoutOneSlash(s) ==
    IF s # <<>> /\ s[Len(s)] = "/" THEN SubSeq(s, 1, Len(s) - 1) ELSE s

\* C5 as stated: for a name containing whitespace of any kind, the identifier
\* is what follows the last whitespace character, a trailing '/' removed, and the
\* description is what precedes it.
C5_Original ==
    (~IsNone(extracted) /\ \E i \in 1..Len(item_name) : item_name[i] \in Whitespace) =>
        extracted.val = << Before(item_name, LastIndexIn(item_name, Whitespace)),
                           WithoutOneSlash(After(item_name,
                                                 LastIndexIn(item_name, Whitespace))) >>

\* C5, amended: only the space character splits.  For a name containing a space,
\* the identifier is what follows the last space, stripped of surrounding
\* whitespace and then of every trailing '/', and the description is what
\* precedes that space, stripped of surrounding whitespace; a name without a
\* space is its own description and has the empty identifier.
C5_Amended ==
    ~IsNone(extracted) =>
        IF \E i \in 1..Len(item_name) : item_name[i] = " "
        THEN extracted.val =
                 << Strip(Before(item_name, LastIndexIn(item_name, {" "}))),
                    RStripChar(Strip(After(item_name, LastIndexIn(item_name, {" "}))),
                               "/") >>
        ELSE extracted.val = <<item_name, <<>>>>

\* C5's case: a name with a space and a trailing '/' was split into a non-empty
\* identifier.
C5_Witness ==
    /\ ~IsNone(extracted)
    /\ \E i \in 1..Len(item_name) : item_name[i] = " "
    /\ item_name[Len(item_name)] = "/"
    /\ extracted.val[2] # <<>>

\* C6: for a non-empty identifier the catalog depends on the first character
\* alone: get_price calls search_justkampers, and only it, when that character
\* is 'J', and search_heritage, and only it, otherwise, and tags the result
\* with that catalog's display name whether or not a price was found.
C6_Routing ==
    (~IsNone(facade) /\ FacadeSku # <<>>) =>
        IF FacadeSku[1] = "J"
        THEN /\ facade.val.calls = <<"search_justkampers">>
             /\ facade.val.ret[2] = "JustKampers"
        ELSE /\ facade.val.calls = <<"search_heritage">>
             /\ facade.val.ret[2] = "Heritage Parts Centre"

\* C6's case: an identifier starting with a lower-case j went to Heritage and no
\* price was found.
C6_Witness ==
    /\ ~IsNone(facade)
    /\ FacadeSku # <<>>
    /\ FacadeSku[1] = "j"
    /\ facade.val.calls = <<"search_heritage">>
    /\ IsNone(facade.val.ret[1])

(***************************************************************************)
(* Claims about matching and extraction in the adapters.                   *)
(***************************************************************************)
\* An adapter was called by itself, and the trace of what it did.
Searched ==
    ~IsNone(lk_out) /\ lk_out.val.fn \in {"search_justkampers", "search_heritage"}
OnJustKampers == lk_out.val.fn = "search_justkampers"
Trace == lk_out.val.out.tr

\* The entries the adapter enumerates.
Candidates ==
    IF OnJustKampers THEN lk_page.found ELSE HProducts(lk_page.found, lk_page.alt)

\* The identifier an entry displays: on JustKampers its first non-empty label
\* (none when the labels cannot be read), on Heritage the text of its first
\* non-empty SKU element or, failing that, the target its title contains.
Displayed(cand) ==
    IF OnJustKampers
    THEN (IF cand.labels_ok THEN JKProductSku(cand.labels) ELSE <<>>)
    ELSE HProductSku(cand, RStripChar(Strip(lk_sku), "/"))

\* An identifier with its spaces and slashes removed, upper-cased.
Normalised(sku) == Upper(RemoveChar(RemoveChar(sku, " "), "/"))

TreatedAsMatch(k) == \E i \in 1..Len(Trace.matched) : Trace.matched[i] = k

\* C17 as claimed: in both adapters an entry looked at is treated as matching
\* exactly when its displayed identifier and the target are equal after
\* removing spaces and slashes and upper-casing both.
C17_Original ==
    Searched =>
        \A i \in 1..Len(Trace.examined) :
            TreatedAsMatch(Trace.examined[i])
                <=> Normalised(Displayed(Candidates[Trace.examined[i]]))
                        = Normalised(lk_sku)

\* C17 amended: search_heritage compares the two identifiers with spaces and
\* slashes removed and upper-cased; search_justkampers compares the label and
\* the trimmed target upper-cased only, so that a space or a slash in either
\* keeps them apart.
C17_Amended ==
    Searched =>
        \A i \in 1..Len(Trace.examined) :
            TreatedAsMatch(Trace.examined[i])
                <=> IF OnJustKampers
                    THEN Upper(Displayed(Candidates[Trace.examined[i]]))
                             = Upper(Strip(lk_sku))
                    ELSE Normalised(Displayed(Candidates[Trace.examined[i]]))
                             = Normalised(lk_sku)

\* C17's case: search_justkampers for j1 looked at an entry labelled "j 1/",
\* which it did not treat as matching, and then at an entry labelled J1, which
\* it did.
C17_Witness ==
    /\ Searched /\ OnJustKampers
    /\ lk_sku = <<"j", "1">>
    /\ Trace.examined = <<1, 2>>
    /\ Displayed(Candidates[1]) = <<"j", " ", "1", "/">>
    /\ Displayed(Candidates[2]) = <<"J", "1">>
    /\ Trace.matched = <<2>>

\* The value an adapter called by itself returned.
Price == lk_out.val.out.ret

\* C18: first match wins.  At most one entry is treated as matching and no
\* entry after it is looked at; a price returned was taken from that entry;
\* without any matching entry nothing is returned.
C18_FirstMatchWins ==
    Searched =>
        /\ Len(Trace.matched) <= 1
        /\ Trace.matched # <<>> =>
               Trace.examined[Len(Trace.examined)] = Trace.matched[1]
        /\ ~IsNone(Price) =>
               /\ Trace.matched # <<>>
               /\ Trace.from.val[1] = Trace.matched[1]
        /\ Trace.matched = <<>> => IsNone(Price)

\* C19: every price search_justkampers or search_heritage returns is
\* strictly greater than 0.
C19_PositivePrice ==
    (Searched /\ ~IsNone(Price)) => FloatGt(Price.val, FloatZero)

\* What the price selectors give inside the entry cand of the result page.
InListing(cand) == IF OnJustKampers THEN JKListing(cand, 1) ELSE HListing(cand, 1)

\* C20: a lookup whose browser started loads the search page exactly once (and
\* no lookup more than once); it opens at most one product page, and only that
\* of an entry treated as matching whose price selectors gave no price in the
\* listing; a price returned was taken from an entry treated as matching.
C20_Cascade ==
    Searched =>
        /\ Trace.loads <= 1
        /\ lk_page.start = "ok" => Trace.loads = 1
        /\ Trace.clicks <= 1
        /\ Trace.clicks >= 1 =>
               \E i \in 1..Len(Trace.matched) :
                   InListing(Candidates[Trace.matched[i]]).kind # "price"
        /\ ~IsNone(Price) => TreatedAsMatch(Trace.from.val[1])

(***************************************************************************)
(* process_xero_export: the command-line batch run.                       *)
(*                                                                         *)
(* A row of the input CSV is its ItemName and SalesUnitPrice; the number   *)
(* of a row stands for its ItemCode.  The run looks the rows up one after  *)
(* the other; BatchItem is one turn of the loop of line 430 and BatchWrite *)
(* is what follows the loop.  Whatever way the run leaves the try block,   *)
(* the finally clause of line 522 closes the scraper's driver.             *)
(***************************************************************************)
Row(name, price) == [ItemName |-> name, SalesUnitPrice |-> price]

\* The literal 0.01 of lines 444 (xero_price_updater.py) and 245 (web_app.py).
Threshold == FloatOfDecimal(<<"0">>, <<"0", "1">>)

\* abs(price_diff) > 0.01
PriceChanged(price_diff) == FloatGt(FloatAbs(price_diff), Threshold)

\* A plausible bug: the change kept as a fraction, the factor 100 lost.
DifferencePercent_fraction(price_diff, current_price) ==
    IF FloatGt(current_price, FloatZero)
    THEN FloatDiv(price_diff, current_price)
    ELSE FloatZero

\* (price_diff / current_price * 100) if current_price > 0 else 0
DifferencePercent(price_diff, current_price) ==
    IF FloatGt(current_price, FloatZero)
    THEN FloatTimes100(FloatDiv(price_diff, current_price))
    ELSE FloatZero

\* What the run keeps of one lookup: the page the browser showed, the
\* scraper's driver field before the call, what get_price did, the name and
\* the price cell of the row as read, and current_price.
Looked(page, before, out, item, current_price) ==
    [page |-> page, before |-> before, out |-> out, name |-> item.ItemName,
     cell |-> item.SalesUnitPrice, old |-> current_price]

\* An exception leaves the loop: no list changes, nothing is written, and the
\* finally clause closes the driver.
BatchRaise(exc, driver) ==
    /\ run' = exc
    /\ scraper' = NoDriver
    /\ quit' = close_driver(driver)
    /\ UNCHANGED <<items, updates, unchanged, errors, output>>

\* Lines 445-453: the entry of `updates` for row k.
UpdateEntry(k, current_price, new_price, source, price_diff) ==
    [row |-> k, ItemName |-> items[k].ItemName,
     OldPrice |-> current_price, NewPrice |-> new_price,
     Difference |-> price_diff,
     DifferencePercent |-> DifferencePercent(price_diff, current_price),
     Source |-> source]

\* A plausible bug: the price cell written back for every row with a price.
BatchPriced_writealways(k, current_price, new_price, source, price_diff) ==
    /\ items' = [items EXCEPT ![k].SalesUnitPrice = FloatRepr(new_price)]
    /\ IF PriceChanged(price_diff)
       THEN /\ updates' = Append(updates,
                   UpdateEntry(k, current_price, new_price, source, price_diff))
            /\ UNCHANGED <<unchanged, errors>>
       ELSE /\ unchanged' = Append(unchanged,
                   [row |-> k, ItemName |-> items[k].ItemName,
                    Price |-> current_price, Source |-> source])
            /\ UNCHANGED <<updates, errors>>

\* A plausible bug: the new price not written back to the row (line 455 lost).
BatchPriced_nowriteback(k, current_price, new_price, source, price_diff) ==
    IF PriceChanged(price_diff)
    THEN /\ updates' = Append(updates,
                UpdateEntry(k, current_price, new_price, source, price_diff))
         /\ UNCHANGED <<items, unchanged, errors>>
    ELSE /\ unchanged' = Append(unchanged,
                [row |-> k, ItemName |-> items[k].ItemName,
                 Price |-> current_price, Source |-> source])
         /\ UNCHANGED <<items, updates, errors>>

\* Lines 440-462: a price was found.
BatchPriced(k, current_price, new_price, source, price_diff) ==
    IF PriceChanged(price_diff)
    THEN /\ updates' = Append(updates,
                UpdateEntry(k, current_price, new_price, source, price_diff))
         /\ items' = [items EXCEPT ![k].SalesUnitPrice = FloatRepr(new_price)]
         /\ UNCHANGED <<unchanged, errors>>
    ELSE /\ unchanged' = Append(unchanged,
                [row |-> k, ItemName |-> items[k].ItemName,
                 Price |-> current_price, Source |-> source])
         /\ UNCHANGED <<items, updates, errors>>

\* Lines 438-469: new_price, source have been unpacked.
BatchClassify(k, current_price, new_price, source) ==
    IF IsNone(new_price)
    THEN /\ errors' = Append(errors,
                [row |-> k, ItemName |-> items[k].ItemName,
                 CurrentPrice |-> current_price, Error |-> "Price not found"])
         /\ UNCHANGED <<items, updates, unchanged>>
    ELSE BatchPriced(k, current_price, new_price.val, source,
                     FloatSub(new_price.val, current_price))

\* Line 436: new_price, source = scraper.get_price(item_name), out being what
\* the call did.  An exception of get_price, and the ValueError of unpacking
\* a tuple that has not two components, leave the loop.
BatchLooked(k, page, current_price, out) ==
    /\ looked' = Append(looked, Looked(page, scraper, out, items[k], current_price))
    /\ started' = IF out.driver \in {NoDriver, scraper} THEN started
                  ELSE started \cup {out.driver}
    /\ IF out.raised THEN BatchRaise("Exception", out.driver)
       ELSE IF Len(out.ret) # 2 THEN BatchRaise("ValueError", out.driver)
       ELSE /\ BatchClassify(k, current_price, out.ret[1], out.ret[2])
            /\ scraper' = out.driver
            /\ UNCHANGED <<run, quit, output>>

\* Line 433: current_price = float(item.get('SalesUnitPrice', 0)), parsed being
\* what float() gave.  Its ValueError leaves the loop.
BatchParsed(k, page, parsed) ==
    IF IsNone(parsed)
    THEN BatchRaise("ValueError", scraper) /\ UNCHANGED <<looked, started>>
    ELSE BatchLooked(k, page, parsed.val,
                     get_price(items[k].ItemName, scraper, FreshDriver, page))

\* The pages a lookup of the batch meets for the identifier sku: no browser,
\* a navigation error, an empty result page, and a result page offering that
\* identifier at one of three prices.
BatchOffers ==
    { <<"1", ".", "0", "1">>, <<"2", ".", "0", "1">>,
      <<"1", ".", "0", "1", "0", "1">> }

BatchPages(sku) ==
    { NoBrowserPage, Page("ok", "raise", "present", "ok", <<>>, <<>>),
      GoodPage(<<>>) }
        \cup {GoodPage(<<Offer(sku, text)>>) : text \in BatchOffers}

\* The pages row k meets: any of `pages`, and when the batch is run again the
\* page the browser showed for the row in the run before.
PagesFor(k, pages) ==
    IF IsNone(first) THEN pages ELSE pages \cap {first.val.looked[k].page}

\* One turn of the loop of line 430.
BatchItem ==
    /\ run = "running"
    /\ Len(looked) < Len(items)
    /\ \E page \in PagesFor(Len(looked) + 1,
               BatchPages(extract_sku_from_name(items[Len(looked) + 1].ItemName)[2])) :
           BatchParsed(Len(looked) + 1, page,
                       FloatOfStr(items[Len(looked) + 1].SalesUnitPrice))
    /\ UNCHANGED <<first, facadeVars, lookupVars, webVars>>

\* A plausible bug: the updates sorted by the percentage, sign included.
SortKey_signed(pct) == pct

\* Lines 492 (xero_price_updater.py) and 317 (web_app.py): the sort key
\* abs(x['DifferencePercent']), pct being the percentage.
SortKey(pct) == FloatAbs(pct)

\* sorted(list, key=..., reverse=True) on pairs <<key, entry>>: a stable sort,
\* so entries with equal keys keep their order.  Placed(sorted, x) is the
\* sorted list with x put in after the last entry whose key is not smaller.
RECURSIVE Placed(_, _)
Placed(sorted, x) ==
    IF sorted = <<>> THEN <<x>>
    ELSE IF FloatGt(x[1], Head(sorted)[1]) THEN <<x>> \o sorted
    ELSE <<Head(sorted)>> \o Placed(Tail(sorted), x)

RECURSIVE SortedDescending(_)
SortedDescending(pairs) ==
    IF pairs = <<>> THEN <<>>
    ELSE Placed(SortedDescending(SubSeq(pairs, 1, Len(pairs) - 1)), pairs[Len(pairs)])

Entries(pairs) == [i \in 1..Len(pairs) |-> pairs[i][2]]

\* Lines 489-498: the PRICE UPDATES section, in the order written; pcts are
\* the percentages of the entries of list.
UpdatesSection(list, pcts) ==
    Entries(SortedDescending([i \in 1..Len(list) |-> <<SortKey(pcts[i]), list[i]>>]))

\* What the run wrote: the rows of output_file, and the summary and the
\* updates section of update_file.
Written(rows, total_items) ==
    Some([rows |-> rows,
          summary |-> [total |-> total_items, updated |-> Len(updates),
                       unchanged |-> Len(unchanged), errors |-> Len(errors)],
          updates |-> UpdatesSection(updates,
                          [i \in 1..Len(updates) |-> updates[i].DifferencePercent])])

\* Lines 474-523: after the loop.  items[0] of line 476 raises IndexError for
\* an input without rows, output_file having been created empty.
BatchWrite ==
    /\ run = "running"
    /\ Len(looked) = Len(items)
    /\ IF items = <<>>
       THEN /\ run' = "IndexError"
            /\ output' = Some([rows |-> <<>>])
       ELSE /\ run' = "returned"
            /\ output' = Written(items, Len(items))
    /\ scraper' = NoDriver
    /\ quit' = close_driver(scraper)
    /\ UNCHANGED <<items, updates, unchanged, errors, looked, started, first>>
    /\ UNCHANGED <<facadeVars, lookupVars, webVars>>

\* process_xero_export called again, input_file being the output_file of the
\* run that returned: a new scraper (line 413), the rows written read back
\* (lines 416-419), the lists empty (lines 421-424).
BatchAgain ==
    /\ run = "returned"
    /\ first = None
    /\ first' = Some([looked |-> looked, updates |-> updates,
                      unchanged |-> unchanged, errors |-> errors,
                      rows |-> output.val.rows])
    /\ items' = output.val.rows
    /\ updates' = <<>> /\ unchanged' = <<>> /\ errors' = <<>>
    /\ scraper' = NoDriver
    /\ run' = "running"
    /\ looked' = <<>>
    /\ output' = None
    /\ UNCHANGED <<started, quit>>
    /\ UNCHANGED <<facadeVars, lookupVars, webVars>>

(***************************************************************************)
(* SpecBatch: process_xero_export over every input of at most MaxRows rows *)
(* of BatchRows, and once more over the output of a run that returned,     *)
(* the catalogs showing the pages they showed before.                      *)
(***************************************************************************)
MaxRows == 2

BatchNames ==
    { <<"P", " ", "J", "1">>, <<"P", " ", "A", "1">>, <<"P">> }

\* A price cell of the export: two amounts, and an empty cell.
BatchPrices == { <<"1", ".", "0", "0">>, <<"2", ".", "0", "0">>, <<>> }

\* The rows an export may hold: each name at each price, and one row priced 0.
BatchRows ==
    {Row(name, price) : name \in BatchNames, price \in BatchPrices}
        \cup {Row(<<"P", " ", "J", "1">>, <<"0">>)}

\* Line 413 and lines 416-424: a new scraper, the rows read, the lists empty.
InitBatch ==
    /\ items \in ListsUpTo(BatchRows, MaxRows)
    /\ updates = <<>> /\ unchanged = <<>> /\ errors = <<>>
    /\ scraper = NoDriver
    /\ run = "running"
    /\ looked = <<>>
    /\ output = None
    /\ first = None
    /\ NoBrowsers
    /\ FacadeIdle /\ LookupIdle /\ WebIdle

NextBatch == BatchItem \/ BatchWrite \/ BatchAgain

SpecBatch == InitBatch /\ [][NextBatch]_vars

(***************************************************************************)
(* Claims about the batch run.                                             *)
(***************************************************************************)
RowsOf(list) == {list[i].row : i \in 1..Len(list)}

\* The number of entries the three lists hold for row k.
OutcomesOf(k) ==
    Cardinality({i \in 1..Len(updates) : updates[i].row = k})
        + Cardinality({i \in 1..Len(unchanged) : unchanged[i].row = k})
        + Cardinality({i \in 1..Len(errors) : errors[i].row = k})

BatchEnded == run \notin {"idle", "running"}

\* C2: when a batch run has ended, every input row has exactly one outcome
\* among Updated, Unchanged and Error, and the three lists together are as
\* long as the input.  The code breaks it: float() of line 433 raises
\* ValueError on an empty price cell and the run ends with that row and the
\* rows after it left without an outcome.
C2_OneOutcomePerRow ==
    BatchEnded =>
        /\ \A k \in 1..Len(items) : OutcomesOf(k) = 1
        /\ Len(updates) + Len(unchanged) + Len(errors) = Len(items)

\* The value of a price numeral in ten-thousandths of a currency unit.
RECURSIVE NatOfDigits(_)
NatOfDigits(ds) ==
    IF ds = <<>> THEN 0
    ELSE NatOfDigits(SubSeq(ds, 1, Len(ds) - 1)) * 10 + DigitVal(ds[Len(ds)])

TenThousandthsOf(parts) ==
    NatOfDigits(parts[1]) * 10000
        + (IF Len(parts) = 2
           THEN NatOfDigits(SubSeq(parts[2] \o <<"0", "0", "0", "0">>, 1, 4))
           ELSE 0)

TenThousandths(s) == TenThousandthsOf(RSplit1(s, "."))

Distance(a, b) == IF a < b THEN b - a ELSE a - b

\* The row of entry e of `looked` got a price.
PriceFound(e) == ~e.out.raised /\ ~IsNone(e.out.ret[1])

\* The price text the page showed for it, the price having been taken from
\* the text of a listing element.
ShownText(e) == e.page.found[e.out.tr.from.val[1]].listing[e.out.tr.from.val[3]].text

\* Whether the new and the old price of entry e, as written, differ by more
\* than 0.01 (100 ten-thousandths).
DiffersByMoreThanACent(e) ==
    Distance(TenThousandths(ShownText(e)), TenThousandths(e.cell)) > 100

\* C7: an item with a new price is Updated exactly when the new and the old
\* price differ by more than 0.01 currency units, and Unchanged otherwise.
\* The code breaks it: the prices are binary floats, and 1.01 - 1.00 computed
\* in binary64 exceeds the float 0.01, so old 1.00 / new 1.01 is Updated
\* (while old 2.00 / new 2.01 is Unchanged).
C7_Threshold ==
    \A k \in 1..Len(looked) :
        PriceFound(looked[k]) =>
            /\ k \in RowsOf(updates) <=> DiffersByMoreThanACent(looked[k])
            /\ k \in RowsOf(unchanged) <=> ~DiffersByMoreThanACent(looked[k])

\* The lookup of entry e called an adapter without a driver, and the driver
\* is still absent afterwards: start_driver raised.
StartFailed(e) ==
    e.out.calls # <<>> /\ e.before = NoDriver /\ e.out.driver = NoDriver

UpdateOf(k) == updates[CHOOSE i \in 1..Len(updates) : updates[i].row = k]

\* The price cell written for a row: for an Updated row a text that reads as
\* the new price, for any other row the cell as it was read.
CellKept(k, cell) ==
    IF k \in RowsOf(updates)
    THEN FloatOfStr(cell) = Some(UpdateOf(k).NewPrice)
    ELSE cell = looked[k].cell

\* C14: the spreadsheet a completed batch writes has the columns and the rows
\* of the input in the same order; the name of every row is as it was read;
\* the price cell of a row classified Updated reads as the new price, and
\* that of a row classified Unchanged or Error is exactly as it was read.
C14_OutputRows ==
    run = "returned" =>
        /\ Len(output.val.rows) = Len(looked)
        /\ \A k \in 1..Len(looked) :
               /\ DOMAIN output.val.rows[k] = {"ItemName", "SalesUnitPrice"}
               /\ output.val.rows[k].ItemName = looked[k].name
               /\ CellKept(k, output.val.rows[k].SalesUnitPrice)

\* C14's case: a completed batch of two rows, one classified Updated and the
\* other Unchanged.
C14_Witness ==
    /\ run = "returned"
    /\ Len(updates) = 1 /\ Len(unchanged) = 1
    /\ output.val.rows[UpdateOf(updates[1].row).row].SalesUnitPrice
           # looked[updates[1].row].cell

\* The lookup of entry e returned without a price.
PriceAbsent(e) == ~e.out.raised /\ IsNone(e.out.ret[1])

\* (new - old) / old * 100 in the program's arithmetic when old > 0, and 0
\* when old <= 0.
PercentOf(new, old) ==
    IF FloatGt(old, FloatZero)
    THEN FloatTimes100(FloatDiv(FloatSub(new, old), old))
    ELSE FloatZero

\* `update` holds the price the row of entry e was read with, the price its
\* lookup returned, their difference and the percentage.
DifferenceRecorded(e, update) ==
    /\ Some(update.OldPrice) = FloatOfStr(e.cell)
    /\ update.NewPrice = e.out.ret[1].val
    /\ update.Difference = FloatSub(update.NewPrice, update.OldPrice)
    /\ update.DifferencePercent = PercentOf(update.NewPrice, update.OldPrice)

\* list2 is list with one entry more, an entry for row k.
AppendedFor(k, list, list2) ==
    /\ Len(list2) = Len(list) + 1
    /\ SubSeq(list2, 1, Len(list)) = list
    /\ list2[Len(list2)].row = k

\* What the turn of the loop for row k records, e being its lookup: with a
\* new price no Error, and an entry of `updates`, if one is made, that holds
\* the difference and the percentage; without a new price an Error that
\* holds neither, and nothing else.
RecordedFor(k, e) ==
    /\ PriceFound(e) =>
           /\ errors' = errors
           /\ updates' # updates =>
                  /\ AppendedFor(k, updates, updates')
                  /\ DifferenceRecorded(e, updates'[Len(updates')])
    /\ PriceAbsent(e) =>
           /\ AppendedFor(k, errors, errors')
           /\ DOMAIN errors'[Len(errors')]
                  = {"row", "ItemName", "CurrentPrice", "Error"}
           /\ updates' = updates /\ unchanged' = unchanged

\* C21: for every row whose lookup returned a new price no Error is recorded,
\* and the difference recorded for it equals new - old and the percentage
\* recorded for it equals (new - old) / old * 100 when old > 0 and 0 when
\* old <= 0, in the binary floating point the program computes with; for a
\* row whose lookup returned no price the outcome is Error, and its entry
\* holds neither a difference nor a percentage.  Entries once recorded are
\* not altered by the turns of the loop that follow.
C21_DifferenceAndPercent ==
    [][Len(looked') = Len(looked) + 1
           => RecordedFor(Len(looked'), looked'[Len(looked')])]_vars

\* C21's case: a completed batch of two rows with new prices, the first read
\* at 1.00 and found at 1.01, recorded with a percentage a little above 1
\* (1.01 - 1.00 exceeds 0.01 in binary64), the second read at 0 and
\* recorded with its new price as the difference and the percentage 0.
C21_Witness ==
    /\ run = "returned"
    /\ Len(updates) = 2
    /\ looked[updates[1].row].cell = <<"1", ".", "0", "0">>
    /\ Some(updates[1].NewPrice) = FloatOfStr(<<"1", ".", "0", "1">>)
    /\ FloatGt(updates[1].DifferencePercent, updates[1].OldPrice)
    /\ FloatGt(updates[1].NewPrice, updates[1].DifferencePercent)
    /\ updates[2].OldPrice = FloatZero
    /\ updates[2].Difference = updates[2].NewPrice
    /\ updates[2].Difference # FloatZero
    /\ updates[2].DifferencePercent = FloatZero

\* The absolute percentage change of an entry of the report.
AbsPercent(update) == FloatAbs(update.DifferencePercent)

\* C16: in the report of a completed batch the Updates section lists exactly
\* the items classified Updated, each once, and no entry is followed by one
\* whose absolute percentage change is greater, whatever the order in which
\* the items were processed.
C16_ReportOrder ==
    run = "returned" =>
        /\ Len(output.val.updates) = Len(updates)
        /\ \A i \in 1..Len(updates) :
               Cardinality({j \in 1..Len(output.val.updates) :
                                output.val.updates[j] = updates[i]}) = 1
        /\ \A i, j \in 1..Len(output.val.updates) :
               i < j => ~FloatGt(AbsPercent(output.val.updates[j]),
                                 AbsPercent(output.val.updates[i]))

\* C16's case: a completed batch with two Updated rows, the one processed
\* first a rise by the smaller percentage and the one processed second a fall
\* by the greater, so that the report lists them in the other order.
C16_Witness ==
    /\ run = "returned"
    /\ Len(updates) = 2
    /\ ~updates[1].DifferencePercent.neg /\ updates[2].DifferencePercent.neg
    /\ FloatGt(AbsPercent(updates[2]), AbsPercent(updates[1]))
    /\ output.val.updates = <<updates[2], updates[1]>>

\* The batch was run again on its output and returned, the catalogs having
\* returned for every row the price they returned in the run before.
RanAgainOnSamePrices ==
    /\ ~IsNone(first)
    /\ run = "returned"
    /\ \A k \in 1..Len(looked) :
           looked[k].out.ret[1] = first.val.looked[k].out.ret[1]

\* C15: run again on the output file of a completed batch, with the catalogs
\* returning the same prices, the batch classifies no row Updated (every row
\* that was Updated or Unchanged is Unchanged) and writes rows identical to
\* the ones it read.
C15_Idempotent ==
    RanAgainOnSamePrices =>
        /\ updates = <<>>
        /\ \A k \in RowsOf(first.val.updates) \cup RowsOf(first.val.unchanged) :
               k \in RowsOf(unchanged)
        /\ output.val.rows = first.val.rows

\* C15's case: the run before classified a row Updated and another one
\* Unchanged.
C15_Witness ==
    /\ RanAgainOnSamePrices
    /\ first.val.updates # <<>>
    /\ first.val.unchanged # <<>>

(***************************************************************************)
(* web_app.py: /upload, /cancel and the process_csv threads (production    *)
(* mode).                                                                  *)
(*                                                                         *)
(* /upload creates a ScraperTask, makes it the global current_task and     *)
(* starts a thread running process_csv; it does not wait for a thread      *)
(* started earlier.  Every thread reads the globals current_task and       *)
(* scraper_instance anew at each statement that names them, so a thread    *)
(* works on whatever object the global holds at that moment.  The steps of *)
(* a thread are the stretches of process_csv between the points where      *)
(* another thread or a request handler can be seen to interleave:          *)
(*   ProcessBegin     lines 177-191   ProcessDispatch  lines 194-220       *)
(*   ProcessLookup    lines 222-229   ProcessRecord    lines 231-263       *)
(*   ProcessSave      lines 265-283, 292-295                               *)
(*   ProcessComplete  lines 285-290   ProcessFinally   lines 297-300       *)
(* A lookup is in flight from the end of ProcessDispatch to the end of     *)
(* ProcessLookup.  Each thread keeps the events it emitted (socketio.emit) *)
(* in the order it emitted them.                                           *)
(***************************************************************************)
\* ScraperTask.__init__
ScraperTask ==
    [total_items |-> 0, processed_items |-> 0, updates |-> <<>>,
     errors |-> <<>>, unchanged |-> <<>>, status |-> "idle",
     current_item |-> <<>>, output_file |-> "", report_file |-> ""]

\* A thread running process_csv(filepath): its position, the rows of the file,
\* what it keeps of each lookup, the scraper it created, what it wrote, and
\* the events it emitted.
Thread(file) ==
    [pc |-> "start", items |-> file, looked |-> <<>>, scraper |-> 0,
     written |-> None, events |-> <<>>]

\* socketio.emit(name, ...): the events of process_csv.
Event(name) == [ev |-> name]
ItemEvent(name, k) == [ev |-> name, row |-> k]
CompleteEvent(task) ==
    [ev |-> "processing_complete", output_file |-> task.output_file,
     report_file |-> task.report_file]

\* The uploads of a session: a first one, and a second one while the first may
\* still be running.
Uploads == 1..2

\* Lines 202-206: the price cell, empty or unparsable cells counting as 0.0.
WebPriceOf(price_str, parsed) ==
    IF price_str = <<>> \/ IsNone(parsed) THEN FloatZero ELSE parsed.val

WebPriceOfStripped(price_str) == WebPriceOf(price_str, FloatOfStr(price_str))

WebPrice(cell) == WebPriceOfStripped(Strip(cell))

\* Lines 223-229: new_price, source, url = scraper_instance.get_price(item_name)
\* inside try / except Exception.  `call` is None when scraper_instance is None
\* (the attribute access raises), else what get_price did; an exception of the
\* call and the ValueError of unpacking a tuple that has not three components
\* are caught, and leave new_price None and source "error".
Unpacked(call) ==
    IF IsNone(call) \/ call.val.raised \/ Len(call.val.ret) # 3
    THEN [new_price |-> None, source |-> "error", url |-> None]
    ELSE [new_price |-> call.val.ret[1], source |-> call.val.ret[2],
          url |-> call.val.ret[3]]

\* What a thread keeps of one lookup.  At the dispatch: the row, the price
\* cell and current_price, the task that was current and whether /cancel had
\* been accepted for it.  The page the browser showed, the scraper called
\* and its driver field before the call, what get_price did and the values
\* unpacked are filled in when the call returns, and the outcome when it is
\* recorded.
WebLooked(k, cell, current_price) ==
    [row |-> k, page |-> None, scraper |-> 0, before |-> NoDriver,
     call |-> None, cell |-> cell,
     old |-> current_price, task |-> current_task,
     late |-> current_task \in asked,
     new_price |-> None, source |-> "", url |-> None,
     outcome |-> "dispatched"]

WebReturned(e, page, sid, call, got) ==
    [e EXCEPT !.page = page, !.scraper = sid,
              !.before = IF sid = 0 THEN NoDriver ELSE scrapers[sid],
              !.call = call,
              !.new_price = got.new_price, !.source = got.source, !.url = got.url,
              !.outcome = "pending"]

\* The files uploaded.  A row is a part of JustKampers priced 1.00 or a name
\* without identifier and with an empty price cell.  A file uploaded alone has
\* at most MaxSoloRows rows; a second file is uploaded only when the first has
\* at most MaxUploadRows rows, and has at most as many itself.
MaxSoloRows == 2
MaxUploadRows == 1

WebRows == { Row(<<"P", " ", "J", "1">>, <<"1", ".", "0", "0">>), Row(<<"P">>, <<>>) }

WebFiles ==
    IF threads = <<>> THEN ListsUpTo(WebRows, MaxSoloRows)
    ELSE IF Len(threads[1].items) <= MaxUploadRows THEN ListsUpTo(WebRows, MaxUploadRows)
    ELSE {}

\* upload_file, lines 82-92.
upload_file ==
    /\ Len(threads) < Cardinality(Uploads)
    /\ \E file \in WebFiles :
           threads' = Append(threads, Thread(file))
    /\ tasks' = Append(tasks, ScraperTask)
    /\ current_task' = Len(tasks) + 1
    /\ UNCHANGED <<scraper_instance, scrapers, asked, started, quit>>
    /\ UNCHANGED <<facadeVars, lookupVars, batchVars>>

\* cancel_processing, lines 340-347.
cancel_processing ==
    /\ IF current_task # 0
       THEN /\ tasks' = [tasks EXCEPT ![current_task].status = "cancelled"]
            /\ asked' = asked \cup {current_task}
       ELSE UNCHANGED <<tasks, asked>>
    /\ UNCHANGED <<current_task, scraper_instance, scrapers, threads, started, quit>>
    /\ UNCHANGED <<facadeVars, lookupVars, batchVars>>

\* Lines 177-191: the status set to "processing", the rows read, total_items
\* set, and a new scraper made the global scraper_instance.
ProcessBegin(t) ==
    /\ threads[t].pc = "start"
    /\ tasks' = [tasks EXCEPT ![current_task].status = "processing",
                              ![current_task].total_items = Len(threads[t].items)]
    /\ scrapers' = Append(scrapers, NoDriver)
    /\ scraper_instance' = Len(scrapers) + 1
    /\ threads' = [threads EXCEPT
           ![t].pc = "loop", ![t].scraper = Len(scrapers) + 1,
           ![t].events = @ \o <<Event("status_update"), Event("status_update")>>]
    /\ UNCHANGED <<current_task, asked, started, quit>>
    /\ UNCHANGED <<facadeVars, lookupVars, batchVars>>

\* The pages a lookup of the web run meets for the identifier sku.
WebPages(sku) == IF sku = <<>> THEN {GoodPage(<<>>)} ELSE FacadePages(sku)

\* Lines 198-220: the row read, the task's progress set, item_processing
\* emitted.
DispatchItem(t, k) ==
    /\ tasks' = [tasks EXCEPT
           ![current_task].current_item = <<k, threads[t].items[k].ItemName>>,
           ![current_task].processed_items = k]
    /\ threads' = [threads EXCEPT
           ![t].pc = "lookup",
           ![t].looked = Append(@, WebLooked(k, threads[t].items[k].SalesUnitPrice,
                                             WebPrice(threads[t].items[k].SalesUnitPrice))),
           ![t].events = Append(@, ItemEvent("item_processing", k))]

\* Lines 194-220: the head of the loop, and a turn of it up to the lookup.
ProcessDispatch(t) ==
    /\ threads[t].pc = "loop"
    /\ IF \/ tasks[current_task].status = "cancelled"
          \/ Len(threads[t].looked) = Len(threads[t].items)
       THEN /\ threads' = [threads EXCEPT ![t].pc = "save"]
            /\ UNCHANGED tasks
       ELSE DispatchItem(t, Len(threads[t].looked) + 1)
    /\ UNCHANGED <<current_task, scraper_instance, scrapers, asked, started, quit>>
    /\ UNCHANGED <<facadeVars, lookupVars, batchVars>>

\* Lines 223-229: the call of get_price on the scraper the global names has
\* returned, call being None when the global names none.
LookupCalled(t, k, page, sid, call) ==
    /\ threads' = [threads EXCEPT
           ![t].pc = "record",
           ![t].looked[k] = WebReturned(@, page, sid, call, Unpacked(call))]
    /\ IF IsNone(call) THEN UNCHANGED <<scrapers, started>>
       ELSE /\ scrapers' = [scrapers EXCEPT ![sid] = call.val.driver]
            /\ started' = IF call.val.driver \in {NoDriver, scrapers[sid]}
                          THEN started
                          ELSE started \cup {call.val.driver}

LookupItem(t, k, page) ==
    LookupCalled(t, k, page, scraper_instance,
                 IF scraper_instance = 0 THEN None
                 ELSE Some(get_price(threads[t].items[k].ItemName,
                                     scrapers[scraper_instance], FreshDriver, page)))

ProcessLookup(t) ==
    /\ threads[t].pc = "lookup"
    /\ \E page \in WebPages(extract_sku_from_name(
                         threads[t].items[Len(threads[t].looked)].ItemName)[2]) :
           LookupItem(t, Len(threads[t].looked), page)
    /\ UNCHANGED <<current_task, tasks, scraper_instance, asked, quit>>
    /\ UNCHANGED <<facadeVars, lookupVars, batchVars>>

\* Lines 235-244: the result of a row with a price.
WebResult(t, e, price_diff) ==
    [thread |-> t, row |-> e.row, old_price |-> e.old,
     new_price |-> e.new_price.val, difference |-> price_diff,
     difference_percent |-> DifferencePercent(price_diff, e.old),
     source |-> e.source, url |-> e.url]

\* Lines 231-252: a price was found.
RecordPriced(t, e, price_diff) ==
    IF PriceChanged(price_diff)
    THEN /\ tasks' = [tasks EXCEPT ![current_task].updates = Append(@,
                WebResult(t, e, price_diff))]
         /\ threads' = [threads EXCEPT
                ![t].pc = "loop",
                ![t].items[e.row].SalesUnitPrice = FloatRepr(e.new_price.val),
                ![t].looked[e.row].outcome = "updated",
                ![t].events = @ \o <<ItemEvent("item_updated", e.row),
                                     Event("status_update")>>]
    ELSE /\ tasks' = [tasks EXCEPT ![current_task].unchanged = Append(@,
                WebResult(t, e, price_diff))]
         /\ threads' = [threads EXCEPT
                ![t].pc = "loop",
                ![t].looked[e.row].outcome = "unchanged",
                ![t].events = @ \o <<ItemEvent("item_unchanged", e.row),
                                     Event("status_update")>>]

\* Lines 231-263, e being what the lookup of the turn left.
RecordOutcome(t, e) ==
    IF IsNone(e.new_price)
    THEN /\ tasks' = [tasks EXCEPT ![current_task].errors = Append(@,
                [thread |-> t, row |-> e.row, current_price |-> e.old,
                 error |-> "Price not found"])]
         /\ threads' = [threads EXCEPT
                ![t].pc = "loop",
                ![t].looked[e.row].outcome = "error",
                ![t].events = @ \o <<ItemEvent("item_error", e.row),
                                     Event("status_update")>>]
    ELSE RecordPriced(t, e, FloatSub(e.new_price.val, e.old))

ProcessRecord(t) ==
    /\ threads[t].pc = "record"
    /\ RecordOutcome(t, threads[t].looked[Len(threads[t].looked)])
    /\ UNCHANGED <<current_task, scraper_instance, scrapers, asked, started, quit>>
    /\ UNCHANGED <<facadeVars, lookupVars, batchVars>>

\* What write_report and the CSV writer put on disk, lines 271-283 and 302-330.
WebWritten(rows, task) ==
    Some([rows |-> rows,
          summary |-> [total |-> task.processed_items, updated |-> Len(task.updates),
                       unchanged |-> Len(task.unchanged),
                       errors |-> Len(task.errors)],
          updates |-> UpdatesSection(task.updates,
                          [i \in 1..Len(task.updates) |->
                              task.updates[i].difference_percent])])

\* Lines 265-283, and 292-295 for the IndexError of items[0] on a file without
\* rows: the except clause sets the status "error".
ProcessSave(t) ==
    /\ threads[t].pc = "save"
    /\ IF tasks[current_task].status = "cancelled"
       THEN /\ threads' = [threads EXCEPT ![t].pc = "finally"]
            /\ UNCHANGED tasks
       ELSE IF threads[t].items = <<>>
       THEN /\ threads' = [threads EXCEPT
                   ![t].pc = "finally",
                   ![t].written = Some([rows |-> <<>>]),
                   ![t].events = Append(@, Event("processing_error"))]
            /\ tasks' = [tasks EXCEPT ![current_task].output_file = "xero_import",
                                      ![current_task].report_file = "price_update_report",
                                      ![current_task].status = "error"]
       ELSE /\ threads' = [threads EXCEPT
                   ![t].pc = "complete",
                   ![t].written = WebWritten(threads[t].items, tasks[current_task])]
            /\ tasks' = [tasks EXCEPT ![current_task].output_file = "xero_import",
                                      ![current_task].report_file = "price_update_report"]
    /\ UNCHANGED <<current_task, scraper_instance, scrapers, asked, started, quit>>
    /\ UNCHANGED <<facadeVars, lookupVars, batchVars>>

\* Lines 285-290.
ProcessComplete(t) ==
    /\ threads[t].pc = "complete"
    /\ tasks' = [tasks EXCEPT ![current_task].status = "completed"]
    /\ threads' = [threads EXCEPT
           ![t].pc = "finally",
           ![t].events = Append(@, CompleteEvent(tasks[current_task]))]
    /\ UNCHANGED <<current_task, scraper_instance, scrapers, asked, started, quit>>
    /\ UNCHANGED <<facadeVars, lookupVars, batchVars>>

\* Lines 297-300: the finally clause closes the scraper the global names, if
\* it names one, and sets the global to None.
ProcessFinally(t) ==
    /\ threads[t].pc = "finally"
    /\ threads' = [threads EXCEPT ![t].pc = "done"]
    /\ IF scraper_instance # 0
       THEN /\ quit' = close_driver(scrapers[scraper_instance])
            /\ scrapers' = [scrapers EXCEPT ![scraper_instance] = NoDriver]
       ELSE UNCHANGED <<quit, scrapers>>
    /\ scraper_instance' = 0
    /\ UNCHANGED <<current_task, tasks, asked, started>>
    /\ UNCHANGED <<facadeVars, lookupVars, batchVars>>

\* The process_csv threads started.
Started == 1..Len(threads)

(***************************************************************************)
(* SpecWeb: a session of the web application, from its start.              *)
(***************************************************************************)
\* Lines 27-28: no task, no scraper.
InitWeb ==
    /\ current_task = 0
    /\ tasks = <<>>
    /\ scraper_instance = 0
    /\ scrapers = <<>>
    /\ threads = <<>>
    /\ asked = {}
    /\ NoBrowsers
    /\ FacadeIdle /\ LookupIdle /\ BatchIdle

\* A request handled, or one step of a process_csv thread.
NextWeb ==
    \/ upload_file
    \/ cancel_processing
    \/ \E t \in Started : ProcessBegin(t)
    \/ \E t \in Started : ProcessDispatch(t)
    \/ \E t \in Started : ProcessLookup(t)
    \/ \E t \in Started : ProcessRecord(t)
    \/ \E t \in Started : ProcessSave(t)
    \/ \E t \in Started : ProcessComplete(t)
    \/ \E t \in Started : ProcessFinally(t)

SpecWeb == InitWeb /\ [][NextWeb]_vars

(***************************************************************************)
(* Claims about the web application.                                       *)
(***************************************************************************)
\* The lookups of the threads: <<thread, row>>.
Lookups == UNION {{<<t, k>> : k \in 1..Len(threads[t].looked)} : t \in Started}

\* The adapter returned a price during the lookup e.
AdapterPriced(e) ==
    ~IsNone(e.call) /\ ~e.call.val.raised /\ ~IsNone(e.call.val.ret[1])

\* C3: get_price hands process_csv a triple (price, source, url), so a row for
\* which the adapter returned a price is recorded Updated or Unchanged, never
\* Error.  The code breaks it: get_price returns two values, unpacking them
\* into three names raises ValueError inside the try of line 223, and the row
\* is recorded as Error although the price was found.
C3_Triple ==
    \A l \in Lookups :
        (AdapterPriced(threads[l[1]].looked[l[2]])
            /\ threads[l[1]].looked[l[2]].outcome # "pending") =>
            /\ Len(threads[l[1]].looked[l[2]].call.val.ret) = 3
            /\ threads[l[1]].looked[l[2]].outcome \in {"updated", "unchanged"}

\* The lookup e started a browser.
StartedBrowser(e) ==
    ~IsNone(e.call) /\ e.before = NoDriver /\ e.call.val.driver # NoDriver

\* The browsers started by the lookups of thread t.
StartedBy(t) ==
    {threads[l[1]].looked[l[2]].call.val.driver :
        l \in {m \in Lookups : m[1] = t /\ StartedBrowser(threads[m[1]].looked[m[2]])}}

\* C9: when a process_csv run has returned, every browser started during it
\* has been quit and the driver field of the scraper it created is None.  The
\* code breaks it: two runs share the global scraper_instance; a second run
\* overwrites it at line 191, so the finally clause of the first run closes
\* the second run's scraper (or nothing) and the first run's browser is left
\* running.
C9_DriversQuit ==
    \A t \in Started :
        threads[t].pc = "done" =>
            /\ StartedBy(t) \subseteq quit
            /\ threads[t].scraper # 0 => scrapers[threads[t].scraper] = NoDriver

\* C10: once /cancel was accepted for a task its status stays "cancelled", no
\* lookup is dispatched for it afterwards, and the lookup in flight gets its
\* outcome recorded.  The code breaks it: a /cancel arriving after /upload and
\* before the thread runs line 178 is overwritten by status = "processing",
\* and the thread then looks up every row.
C10_Cooperative ==
    /\ \A c \in asked : tasks[c].status = "cancelled"
    /\ \A l \in Lookups : ~threads[l[1]].looked[l[2]].late
    /\ \A l \in Lookups :
           threads[l[1]].pc = "done" => threads[l[1]].looked[l[2]].outcome # "pending"

\* The threads with a lookup in flight.
InFlight == {t \in Started : threads[t].pc = "lookup"}

\* The result lists of task c hold entries of thread c only (the c-th /upload
\* created both).
OwnLists(c) ==
    /\ \A i \in 1..Len(tasks[c].updates) : tasks[c].updates[i].thread = c
    /\ \A i \in 1..Len(tasks[c].unchanged) : tasks[c].unchanged[i].thread = c
    /\ \A i \in 1..Len(tasks[c].errors) : tasks[c].errors[i].thread = c

\* C11: at every moment at most one lookup is in flight and at most one
\* browser is running, whatever /upload requests arrive, and the result lists
\* of a task are written by its own worker only.  The code breaks it:
\* /upload starts a second process_csv thread while the first is running;
\* both look up at once, each on a browser of its own, and both write to
\* whatever task the global current_task names.
C11_OneAtATime ==
    /\ Cardinality(InFlight) <= 1
    /\ Cardinality(started \ quit) <= 1
    /\ \A c \in 1..Len(tasks) : OwnLists(c)

\* The indices of the events of thread t that are about row k.
RowEvents(t, k) ==
    {i \in 1..Len(threads[t].events) :
        "row" \in DOMAIN threads[t].events[i] /\ threads[t].events[i].row = k}

Recorded(e) == e.outcome \in {"updated", "unchanged", "error"}

\* The events of thread t about row k, ev being the events and i the index of
\* the first of them: item_processing, and once the outcome is recorded the
\* one event of the outcome and a status_update, the next row's
\* item_processing coming after them.
ItemEventsInOrder(t, k, ev, i) ==
    /\ ev[i] = ItemEvent("item_processing", k)
    /\ IF Recorded(threads[t].looked[k])
       THEN /\ RowEvents(t, k) = {i, i + 1}
            /\ ev[i + 1].ev \in {"item_updated", "item_unchanged", "item_error"}
            /\ Len(ev) >= i + 2 /\ ev[i + 2] = Event("status_update")
            /\ \A j \in RowEvents(t, k + 1) : j > i + 2
       ELSE RowEvents(t, k) = {i} /\ i = Len(ev)

\* The run of thread t has ended, having been neither cancelled (the save was
\* not skipped) nor failed (no processing_error).
RanToTheEnd(t) ==
    /\ threads[t].pc \in {"finally", "done"}
    /\ ~IsNone(threads[t].written)
    /\ \A i \in 1..Len(threads[t].events) :
           threads[t].events[i].ev # "processing_error"

\* The last event of ev is the one processing_complete, and names both files.
EndsWithComplete(ev) ==
    /\ ev # <<>>
    /\ ev[Len(ev)].ev = "processing_complete"
    /\ \A i \in 1..(Len(ev) - 1) : ev[i].ev # "processing_complete"
    /\ ev[Len(ev)].output_file # "" /\ ev[Len(ev)].report_file # ""

\* C12: for every row a process_csv run dispatched it emitted one
\* item_processing before the lookup, then after the lookup exactly one of
\* item_updated, item_unchanged and item_error and then a status_update, all
\* before the next row's item_processing; and a run that was neither
\* cancelled nor failed ends with exactly one processing_complete, emitted
\* last and naming both output files.  The code breaks the last part: the
\* event is built from the global current_task, which a second /upload
\* (see C11) has replaced by a new task whose file names are empty.
C12_Events ==
    \A t \in Started :
        /\ \A k \in 1..Len(threads[t].looked) :
               /\ RowEvents(t, k) # {}
               /\ ItemEventsInOrder(t, k, threads[t].events,
                                    CHOOSE i \in RowEvents(t, k) :
                                        \A j \in RowEvents(t, k) : i <= j)
        /\ RanToTheEnd(t) => EndsWithComplete(threads[t].events)

\* C13: the status "error" that process_csv sets when an exception leaves the
\* run is terminal: a task whose status is "error" keeps it under every later
\* operation, and a processing_error event was emitted.  The code breaks
\* it: cancel_processing sets the status of the current task to "cancelled"
\* whatever it was.
C13_ErrorIsTerminal ==
    /\ [](\A c \in 1..Len(tasks) :
            tasks[c].status = "error" =>
                \E t \in Started : \E i \in 1..Len(threads[t].events) :
                    threads[t].events[i].ev = "processing_error")
    /\ [][\A c \in 1..Len(tasks) :
              tasks[c].status = "error" => tasks'[c].status = "error"]_vars

====
